---- MODULE Spec2Model ----
(***************************************************************************)
(* pgfixtures: fixture resolution and dependency-ordered load engine.      *)
(*                                                                         *)
(*   SpecSort   GetDependencyGraph's row scan and TopoSort                 *)
(*   SpecMerge  mergeRowsByID on two row lists                              *)
(*   SpecInclude   ParseFile on documents that include one another         *)
(*   SpecTemplate  ParseFile on a document with row templates              *)
(*   SpecScope  ParseFile on including documents that define templates     *)
(*   SpecDataset   ParseFile on documents with repeated ids                *)
(*   SpecLoad   Loader.Load with both dialects and a failing driver        *)
(***************************************************************************)
EXTENDS Integers, Sequences, FiniteSets, TLC

(***************************************************************************)
(* Bounds of the model                                                     *)
(***************************************************************************)
\* foreign-key rows returned by the catalog query
MaxFK == 3
\* length of the table list handed to TopoSort
MaxReq == 3

\* rows in one list handed to mergeRowsByID
MaxMergeRows == 2

\* include entries over all documents
MaxIncludes == 3
\* rows declared over all documents
MaxDeclared == 3

\* table identifiers as their dot-separated parts: public.users is <<"public", "users">>
Users == <<"public", "users">>

Orders == <<"public", "orders">>

Items == <<"public", "items">>

Tables == {Users, Orders, Items}

VARIABLES
    graph,        \* map[string][]string: child -> parents, keys only for children
    inputTables,  \* []string handed to TopoSort
    sortPc,       \* "scan": reading catalog rows, "sorted": TopoSort returned
    sortOrder,    \* TopoSort's first result
    sortErr,      \* TopoSort's second result
    slices,       \* the row lists handed to mergeRowsByID
    mergePc,      \* "args": lists chosen, "merged": mergeRowsByID returned
    mergeResult,  \* mergeRowsByID's result
    docs,         \* the fixture files: path -> document
    parsePc,      \* "files": documents being written, "parsed": ParseFile returned
    parseOut,     \* ParseFile's outcome: [fixtures, err, panic]
    cfg,          \* Loader.Config and the dialect: [Truncate, ResetSeq, DryRun, Database]
    catalog,      \* the schema's foreign keys: a list of [child, parent]
    loadPc,       \* where Load stands
    loadFixtures, \* Load's fixtures
    loadTables,   \* Load's tables: the keys of fixtures in map-iteration order
    loadDeps,     \* Load's deps
    loadSorted,   \* Load's sorted
    loadK,        \* the insert loop: the iteration it is in (1 is i = len(sorted)-1)
    loadJ,        \* the insert loop: the index of the next row of records
    tx,           \* the transaction: "none", "open", "committed", "rolledback", "broken"
    trace,        \* every call made on the database, the transaction and the log, in order
    loadErr       \* what Load returned

sortVars == <<graph, inputTables, sortPc, sortOrder, sortErr>>
mergeVars == <<slices, mergePc, mergeResult>>
parseVars == <<docs, parsePc, parseOut>>
loadVars ==
    <<cfg, catalog, loadPc, loadFixtures, loadTables, loadDeps, loadSorted, loadK, loadJ, tx, trace, loadErr>>
vars == <<sortVars, mergeVars, parseVars, loadVars>>

(***************************************************************************)
(* Generic helpers over sequences                                          *)
(***************************************************************************)
Range(s) == {s[i] : i \in DOMAIN s}

SeqsUpTo(S, n) == UNION {[1..k -> S] : k \in 0..n}

NoDup(s) == \A i, j \in DOMAIN s : i # j => s[i] # s[j]

IndexOf(s, x) == CHOOSE i \in DOMAIN s : s[i] = x

\* nil error
NoErr == <<>>

\* every arrangement of the elements of S in a sequence
Perms(S) == {p \in [1..Cardinality(S) -> S] : \A i, j \in DOMAIN p : i # j => p[i] # p[j]}

\* the elements of s that are in S, in s's order
Restrict(s, S) == SelectSeq(s, LAMBDA x : x \in S)

(***************************************************************************)
(* internal/db: GetDependencyGraph (row scan)                              *)
(***************************************************************************)
\* graph := map[string][]string{}
EmptyGraph == [t \in {} |-> <<>>]

\* graph[node] of a Go map: the nil slice for a missing key
GraphAt_NoParents(g, node) == <<>>

GraphAt(g, node) == IF node \in DOMAIN g THEN g[node] ELSE <<>>

\* graph[child] = append(graph[child], parent)
AppendEdge(g, child, parent) ==
    [t \in DOMAIN g \cup {child} |-> IF t = child THEN Append(GraphAt(g, child), parent)
                                     ELSE g[t]]

NumEdges(g) ==
    LET RECURSIVE Sum(_)
        Sum(S) == IF S = {} THEN 0
                  ELSE LET t == CHOOSE x \in S : TRUE
                       IN Len(g[t]) + Sum(S \ {t})
    IN Sum(DOMAIN g)

(***************************************************************************)
(* internal/db: TopoSort (append on finish, reverse at the end)            *)
(***************************************************************************)
\* fmt.Errorf("cyclic dependency detected: %s", node)
CyclicDependency_Nil(node) == NoErr

CyclicDependency(node) == <<"cyclic dependency detected", node>>

\* include := map over inputTables
IncludeSet(tables) == Range(tables)

\* if include[node] || isDependent
ShouldAppend_RequestedOnly(include, node, isDependent) == node \in include

ShouldAppend(include, node, isDependent) == node \in include \/ isDependent

\* the in-place reversal loop
ReverseOrder_Identity(s) == s

ReverseOrder(s) == [i \in 1..Len(s) |-> s[Len(s) + 1 - i]]

\* visit: st = [visited, tempMark, order, err]
RECURSIVE visit(_, _, _, _, _), visitDeps(_, _, _, _, _)
visit(g, include, node, isDependent, st) ==
    IF node \in st.visited THEN st
    ELSE IF node \in st.tempMark THEN [st EXCEPT !.err = CyclicDependency(node)]
    ELSE LET marked == [st EXCEPT !.tempMark = @ \cup {node}]
             after == visitDeps(g, include, GraphAt(g, node), 1, marked)
         IN IF after.err # NoErr THEN after
            ELSE [after EXCEPT !.tempMark = @ \ {node},
                               !.visited = @ \cup {node},
                               !.order = IF ShouldAppend(include, node, isDependent)
                                         THEN Append(@, node) ELSE @]

\* for _, dep := range graph[node] { if err := visit(dep, true); err != nil { return err } }
visitDeps(g, include, deps, i, st) ==
    IF i > Len(deps) THEN st
    ELSE LET after == visit(g, include, deps[i], TRUE, st)
         IN IF after.err # NoErr THEN after
            ELSE visitDeps(g, include, deps, i + 1, after)

\* for _, node := range inputTables { if err := visit(node, false); err != nil { return nil, err } }
RECURSIVE visitRoots(_, _, _, _)
visitRoots(g, tables, i, st) ==
    IF i > Len(tables) THEN st
    ELSE LET after == visit(g, IncludeSet(tables), tables[i], FALSE, st)
         IN IF after.err # NoErr THEN after
            ELSE visitRoots(g, tables, i + 1, after)

\* what TopoSort returns from the final traversal state
SortReturn_PartialOnError(st) == [order |-> ReverseOrder(st.order), err |-> st.err]

SortReturn(st) ==
    IF st.err # NoErr THEN [order |-> <<>>, err |-> st.err]
    ELSE [order |-> ReverseOrder(st.order), err |-> NoErr]

TopoSort(g, tables) ==
    SortReturn(visitRoots(g, tables, 1,
        [visited |-> {}, tempMark |-> {}, order |-> <<>>, err |-> NoErr]))

(***************************************************************************)
(* internal/db: TopoSort, the variant that prepends on finish; its include *)
(* set, append condition and error are those of the variant above          *)
(***************************************************************************)
\* order = append([]string{node}, order...)
PrependNode_Append(order, node) == Append(order, node)

PrependNode(order, node) == <<node>> \o order

RECURSIVE visitPrepend(_, _, _, _, _), visitDepsPrepend(_, _, _, _, _)
visitPrepend(g, include, node, isDependent, st) ==
    IF node \in st.visited THEN st
    ELSE IF node \in st.tempMark THEN [st EXCEPT !.err = CyclicDependency(node)]
    ELSE LET marked == [st EXCEPT !.tempMark = @ \cup {node}]
             after == visitDepsPrepend(g, include, GraphAt(g, node), 1, marked)
         IN IF after.err # NoErr THEN after
            ELSE [after EXCEPT !.tempMark = @ \ {node},
                               !.visited = @ \cup {node},
                               !.order = IF ShouldAppend(include, node, isDependent)
                                         THEN PrependNode(@, node) ELSE @]

visitDepsPrepend(g, include, deps, i, st) ==
    IF i > Len(deps) THEN st
    ELSE LET after == visitPrepend(g, include, deps[i], TRUE, st)
         IN IF after.err # NoErr THEN after
            ELSE visitDepsPrepend(g, include, deps, i + 1, after)

RECURSIVE visitRootsPrepend(_, _, _, _)
visitRootsPrepend(g, tables, i, st) ==
    IF i > Len(tables) THEN st
    ELSE LET after == visitPrepend(g, IncludeSet(tables), tables[i], FALSE, st)
         IN IF after.err # NoErr THEN after
            ELSE visitRootsPrepend(g, tables, i + 1, after)

\* return nil, err / return order, nil
TopoSortPrepend(g, tables) ==
    LET st == visitRootsPrepend(g, tables, 1,
                  [visited |-> {}, tempMark |-> {}, order |-> <<>>, err |-> NoErr])
    IN IF st.err # NoErr THEN [order |-> <<>>, err |-> st.err]
       ELSE [order |-> st.order, err |-> NoErr]

(***************************************************************************)
(* internal/parser: rows and mergeRowsByID                                 *)
(*                                                                         *)
(* A row is a map[string]any: a function from its column names to values.  *)
(* A value is a sequence of text tokens (a YAML scalar), so that the       *)
(* $eval(...) marker can be taken apart.                                   *)
(***************************************************************************)
\* YAML scalars as Go values: the dynamic type and the text
IntVal(s) == [type |-> "int", text |-> <<s>>]

StrVal(s) == [type |-> "string", text |-> <<s>>]

\* s, ok := val.(string)
IsString(val) == val.type = "string"

\* id, hasID := row["id"]
HasID(row) == "id" \in DOMAIN row

\* the values a row's id takes in the model
IdValues == {IntVal("1"), IntVal("2")}

\* byID := map[any]map[string]any{}
EmptyByID == [k \in {} |-> <<>>]

\* byID[id] = row
PutByID_KeepFirst(byID, id, row) ==
    [k \in DOMAIN byID \cup {id} |-> IF k \in DOMAIN byID THEN byID[k] ELSE row]

PutByID(byID, id, row) ==
    [k \in DOMAIN byID \cup {id} |-> IF k = id THEN row ELSE byID[k]]

\* for _, row := range rows { ... }: acc = [byID, noIDRows]
RECURSIVE mergeScanRows(_, _, _)
mergeScanRows(rows, i, acc) ==
    IF i > Len(rows) THEN acc
    ELSE mergeScanRows(rows, i + 1,
            IF HasID(rows[i])
            THEN [acc EXCEPT !.byID = PutByID(@, rows[i]["id"], rows[i])]
            ELSE [acc EXCEPT !.noIDRows = Append(@, rows[i])])

\* for _, rows := range slices { ... }
RECURSIVE mergeScanSlices(_, _, _)
mergeScanSlices(ss, i, acc) ==
    IF i > Len(ss) THEN acc
    ELSE mergeScanSlices(ss, i + 1, mergeScanRows(ss[i], 1, acc))

\* for _, row := range byID { result = append(result, row) }: Go iterates a
\* map in an unspecified order; iter is the order this call happens to use,
\* an arrangement of all id values
ByIDRows(byID, iter) ==
    LET keys == Restrict(iter, DOMAIN byID)
    IN [i \in 1..Len(keys) |-> byID[keys[i]]]

mergeRowsByID_NoIDRowsFirst(ss, iter) ==
    LET acc == mergeScanSlices(ss, 1, [byID |-> EmptyByID, noIDRows |-> <<>>])
    IN acc.noIDRows \o ByIDRows(acc.byID, iter)

mergeRowsByID(ss, iter) ==
    LET acc == mergeScanSlices(ss, 1, [byID |-> EmptyByID, noIDRows |-> <<>>])
    IN ByIDRows(acc.byID, iter) \o acc.noIDRows

(***************************************************************************)
(* internal/parser: parseFileWithTemplatesV2                               *)
(*                                                                         *)
(* docs is the file system: canonical absolute path -> parsed document     *)
(* [include, templates, tables]; a path outside DOMAIN docs is a missing   *)
(* file.  Documents are well-formed YAML whose table keys hold lists of    *)
(* maps.  A TemplateDef is [table, name, extends, fields], names being     *)
(* token sequences and extends = <<>> the empty string.                    *)
(***************************************************************************)
\* the file Load is configured with
FilePath == "main.yml"

NoPanic == <<>>

\* Fixtures{} / AllTemplates{}
EmptyFixtures == [t \in {} |-> <<>>]

EmptyTemplates == [t \in {} |-> <<>>]

\* result[table] of a Go map: nil for a missing key
RowsAt(fixtures, table) == IF table \in DOMAIN fixtures THEN fixtures[table] ELSE <<>>

\* allTemplates[table] of a Go map: the nil map for a missing key
TemplatesAt(allTemplates, table) ==
    IF table \in DOMAIN allTemplates THEN allTemplates[table] ELSE [n \in {} |-> <<>>]

\* allTemplates[table][name] = tmpl
PutTemplate(allTemplates, table, name, tmpl) ==
    [t \in DOMAIN allTemplates \cup {table} |->
        IF t = table
        THEN [n \in DOMAIN TemplatesAt(allTemplates, table) \cup {name} |->
                 IF n = name THEN tmpl ELSE allTemplates[table][n]]
        ELSE allTemplates[t]]

\* for k, v := range src { dst[k] = v }
Overlay(dst, src) ==
    [k \in DOMAIN dst \cup DOMAIN src |-> IF k \in DOMAIN src THEN src[k] ELSE dst[k]]

deepCopyMap(src) == src

EmptyMap == [k \in {} |-> <<>>]

\* if visited[key] { panic("cyclic extends in template: " + key) }
CyclicExtends_Silent(table, name) == [fields |-> EmptyMap, panic |-> NoPanic]

CyclicExtends(table, name) ==
    [fields |-> EmptyMap, panic |-> <<"cyclic extends in template", table, name>>]

\* base = map[string]any{}: a new map, the Fields map of no template
\* (shared names the templates whose Fields map is the map base)
NewBase_TemplateFields(tmpl) == [fields |-> tmpl.fields, shared |-> {tmpl.name}]

NewBase(tmpl) == [fields |-> EmptyMap, shared |-> {}]

\* for k, v := range tmpl.Fields { base[k] = v }: the writes go to the map
\* base and so to every template that shares it
StoreFields(allTemplates, table, base, tmpl) ==
    LET written == Overlay(base.fields, tmpl.fields)
    IN [fields |-> written, shared |-> base.shared, panic |-> NoPanic,
        templates |->
            IF base.shared = {} THEN allTemplates
            ELSE [allTemplates EXCEPT ![table] =
                     [n \in DOMAIN @ |->
                         IF n \in base.shared THEN [@[n] EXCEPT !.fields = written]
                         ELSE @[n]]]]

\* panic(...): nothing was written
TemplatePanic(allTemplates, panic) ==
    [fields |-> EmptyMap, shared |-> {}, panic |-> panic, templates |-> allTemplates]

\* resolveTemplateFields: [fields, shared, panic, templates], templates being
\* the registry as the call leaves it
RECURSIVE resolveTemplateFields(_, _, _, _)
resolveTemplateFields(table, name, allTemplates, visited) ==
    LET key == <<table, name>>
    IN IF key \in visited
       THEN TemplatePanic(allTemplates, CyclicExtends(table, name).panic)
       ELSE IF name \notin DOMAIN TemplatesAt(allTemplates, table)
       THEN TemplatePanic(allTemplates, <<"template not found", table, name>>)
       ELSE LET tmpl == allTemplates[table][name]
            IN IF tmpl.extends # <<>>
               THEN LET base == resolveTemplateFields(table, tmpl.extends, allTemplates,
                                                      visited \cup {key})
                    IN IF base.panic # NoPanic THEN base
                       ELSE StoreFields(base.templates, table, base, tmpl)
               ELSE StoreFields(allTemplates, table, NewBase(tmpl), tmpl)

\* for k, v := range row { if k != "extends" { merged[k] = v } }
OwnFields(row) == [k \in DOMAIN row \ {"extends"} |-> row[k]]

\* merged := base overlaid by the row's own fields
MergeRowOverBase_BaseWins(base, row) == Overlay(OwnFields(row), base)

MergeRowOverBase(base, row) == Overlay(deepCopyMap(base), OwnFields(row))

\* resolveExtendsV2: [row, panic, templates]
resolveExtendsV2(row, table, allTemplates) ==
    IF ~IsString(row["extends"]) \/ table \notin DOMAIN allTemplates
    THEN [row |-> deepCopyMap(row), panic |-> NoPanic, templates |-> allTemplates]
    ELSE LET base == resolveTemplateFields(table, row["extends"].text, allTemplates, {})
         IN IF base.panic # NoPanic
            THEN [row |-> EmptyMap, panic |-> base.panic, templates |-> base.templates]
            ELSE [row |-> MergeRowOverBase(base.fields, row), panic |-> NoPanic,
                  templates |-> base.templates]

\* for _, v := range arr { ... rows = append(rows, ...) }: [rows, panic, templates]
RECURSIVE resolveRows(_, _, _, _, _)
resolveRows(arr, i, table, allTemplates, rows) ==
    IF i > Len(arr) THEN [rows |-> rows, panic |-> NoPanic, templates |-> allTemplates]
    ELSE IF "extends" \in DOMAIN arr[i]
    THEN LET r == resolveExtendsV2(arr[i], table, allTemplates)
         IN IF r.panic # NoPanic
            THEN [rows |-> <<>>, panic |-> r.panic, templates |-> r.templates]
            ELSE resolveRows(arr, i + 1, table, r.templates, Append(rows, r.row))
    ELSE resolveRows(arr, i + 1, table, allTemplates, Append(rows, deepCopyMap(arr[i])))

\* result[table] = mergeRowsByID(result[table], rows)
MergeInto_EarlierWins(fixtures, table, rows, iter) ==
    [t \in DOMAIN fixtures \cup {table} |->
        IF t = table THEN mergeRowsByID(<<rows, RowsAt(fixtures, table)>>, iter)
        ELSE fixtures[t]]

MergeInto(fixtures, table, rows, iter) ==
    [t \in DOMAIN fixtures \cup {table} |->
        IF t = table THEN mergeRowsByID(<<RowsAt(fixtures, table), rows>>, iter)
        ELSE fixtures[t]]

\* for table, rows := range incFixtures { result[table] = mergeRowsByID(result[table], rows) }
RECURSIVE mergeFixtures(_, _, _, _)
mergeFixtures(result, incFixtures, todo, iter) ==
    IF todo = {} THEN result
    ELSE LET table == CHOOSE t \in todo : TRUE
         IN mergeFixtures(MergeInto(result, table, incFixtures[table], iter),
                          incFixtures, todo \ {table}, iter)

\* for table, tmap := range incTemplates { for name, tmpl := range tmap { ... } }
mergeTemplates_KeepEarlier(allTemplates, incTemplates) ==
    [t \in DOMAIN allTemplates \cup DOMAIN incTemplates |->
        Overlay(TemplatesAt(incTemplates, t), TemplatesAt(allTemplates, t))]

mergeTemplates(allTemplates, incTemplates) ==
    [t \in DOMAIN allTemplates \cup DOMAIN incTemplates |->
        Overlay(TemplatesAt(allTemplates, t), TemplatesAt(incTemplates, t))]

\* for _, tmpl := range raw.Templates { ... allTemplates[table][tmpl.Name] = tmpl }
RECURSIVE registerTemplates(_, _, _)
registerTemplates(templates, i, allTemplates) ==
    IF i > Len(templates) THEN allTemplates
    ELSE registerTemplates(templates, i + 1,
            PutTemplate(allTemplates, templates[i].table, templates[i].name, templates[i]))

\* for key, val := range raw.Fixtures { ... }: [fixtures, panic, templates]
RECURSIVE parseTables(_, _, _, _, _)
parseTables(tables, todo, allTemplates, result, iter) ==
    IF todo = {} THEN [fixtures |-> result, panic |-> NoPanic, templates |-> allTemplates]
    ELSE LET key == CHOOSE t \in todo : TRUE
             r == resolveRows(tables[key], 1, key, allTemplates, <<>>)
         IN IF r.panic # NoPanic
            THEN [fixtures |-> EmptyFixtures, panic |-> r.panic, templates |-> r.templates]
            ELSE parseTables(tables, todo \ {key}, r.templates,
                             MergeInto(result, key, r.rows, iter), iter)

\* return nil, nil, err (visited is the caller's map and keeps its marks)
ParseFailure_KeepPartial(acc, err, panic, visited) ==
    [fixtures |-> acc, templates |-> EmptyTemplates,
     err |-> err, panic |-> panic, visited |-> visited]

ParseFailure(acc, err, panic, visited) ==
    [fixtures |-> EmptyFixtures, templates |-> EmptyTemplates,
     err |-> err, panic |-> panic, visited |-> visited]

\* parseFileWithTemplatesV2: [fixtures, templates, err, panic, visited];
\* iter is the order in which Go happens to iterate the byID maps
RECURSIVE parseFileWithTemplatesV2(_, _, _, _), parseIncludes(_, _, _, _, _)
parseFileWithTemplatesV2(fs, path, visited, iter) ==
    IF path \in visited
    THEN ParseFailure(EmptyFixtures, <<"cyclic include detected", path>>, NoPanic, visited)
    ELSE IF path \notin DOMAIN fs
    THEN ParseFailure(EmptyFixtures, <<"read file", path>>, NoPanic, visited \cup {path})
    ELSE LET raw == fs[path]
             inc == parseIncludes(fs, raw.include, 1,
                        [fixtures |-> EmptyFixtures, templates |-> EmptyTemplates,
                         err |-> NoErr, panic |-> NoPanic,
                         visited |-> visited \cup {path}], iter)
         IN IF inc.err # NoErr \/ inc.panic # NoPanic THEN inc
            ELSE LET allTemplates == registerTemplates(raw.templates, 1, inc.templates)
                     own == parseTables(raw.tables, DOMAIN raw.tables, allTemplates,
                                        inc.fixtures, iter)
                 IN IF own.panic # NoPanic
                    THEN ParseFailure(inc.fixtures, NoErr, own.panic, inc.visited)
                    ELSE [fixtures |-> own.fixtures, templates |-> own.templates,
                          err |-> NoErr, panic |-> NoPanic, visited |-> inc.visited]

\* for _, incPath := range includes { ... }: acc is the includer's result so far
parseIncludes(fs, includes, i, acc, iter) ==
    IF i > Len(includes) THEN acc
    ELSE LET sub == parseFileWithTemplatesV2(fs, includes[i], acc.visited, iter)
         IN IF sub.err # NoErr \/ sub.panic # NoPanic
            THEN ParseFailure(acc.fixtures, sub.err, sub.panic, sub.visited)
            ELSE parseIncludes(fs, includes, i + 1,
                    [fixtures |-> mergeFixtures(acc.fixtures, sub.fixtures,
                                                DOMAIN sub.fixtures, iter),
                     templates |-> mergeTemplates(acc.templates, sub.templates),
                     err |-> NoErr, panic |-> NoPanic, visited |-> sub.visited], iter)

\* ParseFileWithInclude drops the templates; ParseFile starts from an empty visited map
ParseFileWithInclude(fs, path, visited, iter) ==
    LET Fixtures(out) == [fixtures |-> out.fixtures, err |-> out.err, panic |-> out.panic]
    IN Fixtures(parseFileWithTemplatesV2(fs, path, visited, iter))

ParseFile(fs, path, iter) == ParseFileWithInclude(fs, path, {}, iter)

(***************************************************************************)
(* internal/db: what a dialect does on the database                        *)
(*                                                                         *)
(* A run of a handler is the list of its calls, [op, stmt, ok]: op tells   *)
(* the receiver and the method (DB.Query, Tx.Exec, Log, ...), stmt is the  *)
(* statement as a record, ok whether the driver reported success.  fail    *)
(* is the number of the call the driver fails in this run, 0 for none.     *)
(***************************************************************************)
\* the error a driver call returns
DriverError(stmt) == <<"driver error", stmt.kind>>

\* nothing called yet
NoCalls == [events |-> <<>>, n |-> 0, err |-> NoErr]

\* one call on the database or the transaction
Issue(st, op, stmt, fail) ==
    [events |-> Append(st.events, [op |-> op, stmt |-> stmt, ok |-> st.n + 1 # fail]),
     n |-> st.n + 1,
     err |-> IF st.n + 1 = fail THEN DriverError(stmt) ELSE NoErr]

\* log.Println("[dry-run]", query)
LogDryRun_Executes(st, stmt) ==
    [st EXCEPT !.events = Append(@, [op |-> "Tx.Exec", stmt |-> stmt, ok |-> TRUE])]

LogDryRun(st, stmt) ==
    [st EXCEPT !.events = Append(@, [op |-> "Log", stmt |-> stmt, ok |-> TRUE])]

\* fmt.Errorf("...: %w", err)
Wrap(st, msg) == [st EXCEPT !.err = <<msg, @>>]

\* parts[len(parts)-1] of strings.Split(schemaTable, ".")
TableName(parts) == <<parts[Len(parts)]>>

\* "public." + childTable
PublicPrefix(name) == <<"public">> \o name

\* the rows the foreign-key query of a dialect returns: Postgres selects
\* table_schema || '.' || table_name, MySQL selects TABLE_NAME
CatalogRows(database, fks) ==
    [i \in DOMAIN fks |->
        IF database = "postgres" THEN fks[i]
        ELSE [child |-> TableName(fks[i].child), parent |-> TableName(fks[i].parent)]]

\* for rows.Next() { ... graph[child] = append(graph[child], parent) }
RECURSIVE scanDependencies(_, _, _, _)
scanDependencies(database, rows, i, g) ==
    IF i > Len(rows) THEN g
    ELSE scanDependencies(database, rows, i + 1,
            IF database = "postgres" THEN AppendEdge(g, rows[i].child, rows[i].parent)
            ELSE AppendEdge(g, PublicPrefix(rows[i].child), PublicPrefix(rows[i].parent)))

\* GetDependencyGraph of both dialects: [graph, events, n, err]
GetDependencyGraph(database, fks, fail) ==
    LET named == IF database = "mysql"
                 THEN Issue(NoCalls, "DB.QueryRow", [kind |-> "select_database"], fail)
                 ELSE NoCalls
    IN IF named.err # NoErr
       THEN [graph |-> EmptyGraph, events |-> named.events, n |-> named.n,
             err |-> <<"get current database", named.err>>]
       ELSE LET q == Issue(named, "DB.Query",
                           [kind |-> "foreign_keys", dialect |-> database], fail)
            IN IF q.err # NoErr
               THEN [graph |-> EmptyGraph, events |-> q.events, n |-> q.n,
                     err |-> <<"query dependencies", q.err>>]
               ELSE [graph |-> scanDependencies(database, CatalogRows(database, fks),
                                                1, EmptyGraph),
                     events |-> q.events, n |-> q.n, err |-> NoErr]

\* PostgresDatabase.TruncateTables: one statement for the whole list
PostgresTruncateTables(list, dryRun, fail) ==
    LET query == [kind |-> "truncate", tables |-> list]
    IN IF dryRun THEN LogDryRun(NoCalls, query)
       ELSE Issue(NoCalls, "Tx.Exec", query, fail)

\* MySQLDatabase.TruncateTables: the loop over the tables
RECURSIVE mysqlTruncateLoop(_, _, _, _, _)
mysqlTruncateLoop(list, i, dryRun, fail, st) ==
    IF i > Len(list) THEN st
    ELSE LET query == [kind |-> "truncate_table", table |-> TableName(list[i])]
         IN IF dryRun THEN mysqlTruncateLoop(list, i + 1, dryRun, fail, LogDryRun(st, query))
            ELSE LET done == Issue(st, "Tx.Exec", query, fail)
                 IN IF done.err # NoErr THEN done
                    ELSE mysqlTruncateLoop(list, i + 1, dryRun, fail, done)

\* SET FOREIGN_KEY_CHECKS = 0, the loop, SET FOREIGN_KEY_CHECKS = 1
MySQLTruncateTables_EnableBeforeLoop(list, dryRun, fail) ==
    LET off == Issue(NoCalls, "Tx.Exec", [kind |-> "set_foreign_key_checks", value |-> 0], fail)
    IN IF off.err # NoErr THEN off
       ELSE LET on == Issue(off, "Tx.Exec",
                            [kind |-> "set_foreign_key_checks", value |-> 1], fail)
            IN IF on.err # NoErr THEN on
               ELSE mysqlTruncateLoop(list, 1, dryRun, fail, on)

MySQLTruncateTables(list, dryRun, fail) ==
    LET off == Issue(NoCalls, "Tx.Exec", [kind |-> "set_foreign_key_checks", value |-> 0], fail)
    IN IF off.err # NoErr THEN off
       ELSE LET looped == mysqlTruncateLoop(list, 1, dryRun, fail, off)
            IN IF looped.err # NoErr THEN looped
               ELSE Issue(looped, "Tx.Exec",
                          [kind |-> "set_foreign_key_checks", value |-> 1], fail)

TruncateTables(database, list, dryRun, fail) ==
    IF database = "postgres" THEN PostgresTruncateTables(list, dryRun, fail)
    ELSE MySQLTruncateTables(list, dryRun, fail)

\* Placeholder: "$<index>" on PostgreSQL, "?" on MySQL
Placeholder(database, index) == IF database = "postgres" THEN <<"$", index>> ELSE <<"?">>

\* InsertRow of both dialects: for col, val := range row fills cols, vals
\* and ph in the order the range happens to use (order); MySQL names the
\* table without its schema. The statement is kept with its table, cols and
\* ph, its arguments as args; row is the pairing of cols and args.
InsertRow(database, table, row, order, dryRun, fail) ==
    LET query == [kind |-> "insert",
                  table |-> IF database = "mysql" THEN TableName(table) ELSE table,
                  cols |-> order,
                  ph |-> [i \in DOMAIN order |-> Placeholder(database, i)],
                  args |-> [i \in DOMAIN order |-> row[order[i]]],
                  row |-> row]
    IN IF dryRun THEN LogDryRun(NoCalls, query)
       ELSE Issue(NoCalls, "Tx.Exec", query, fail)

\* PostgresDatabase.ResetSequences
RECURSIVE PostgresResetLoop(_, _, _, _, _)
PostgresResetLoop(list, i, dryRun, fail, st) ==
    IF i > Len(list) THEN st
    ELSE IF Len(list[i]) # 2 THEN [st EXCEPT !.err = <<"invalid table name", list[i]>>]
    ELSE LET query == [kind |-> "reset_sequences", schema |-> list[i][1],
                       name |-> list[i][2], table |-> list[i]]
         IN IF dryRun THEN PostgresResetLoop(list, i + 1, dryRun, fail, LogDryRun(st, query))
            ELSE LET done == Issue(st, "Tx.Exec", query, fail)
                 IN IF done.err # NoErr THEN done
                    ELSE PostgresResetLoop(list, i + 1, dryRun, fail, done)

\* the AUTO_INCREMENT columns the MySQL schema has
AutoIncrementColumns(name) == IF name \in {<<"users">>, <<"orders">>} THEN <<"id">> ELSE <<>>

\* MySQLDatabase.ResetSequences: for _, column := range columns
RECURSIVE mysqlResetColumns(_, _, _, _, _, _)
mysqlResetColumns(name, columns, c, dryRun, fail, st) ==
    IF c > Len(columns) THEN st
    ELSE LET maxQuery == [kind |-> "select_max", column |-> columns[c], table |-> name]
             maxVal == Issue(st, "Tx.QueryRow", maxQuery, fail)
             alterQuery == [kind |-> "alter_auto_increment", table |-> name,
                            value |-> <<"max + 1 of", columns[c]>>]
         IN IF maxVal.err # NoErr THEN Wrap(maxVal, "get max value")
            ELSE IF dryRun
            THEN mysqlResetColumns(name, columns, c + 1, dryRun, fail,
                                   LogDryRun(maxVal, alterQuery))
            ELSE LET altered == Issue(maxVal, "Tx.Exec", alterQuery, fail)
                 IN IF altered.err # NoErr THEN Wrap(altered, "set auto_increment")
                    ELSE mysqlResetColumns(name, columns, c + 1, dryRun, fail, altered)

\* MySQLDatabase.ResetSequences: for _, schemaTable := range tables
RECURSIVE MySQLResetLoop(_, _, _, _, _)
MySQLResetLoop(list, i, dryRun, fail, st) ==
    IF i > Len(list) THEN st
    ELSE IF Len(list[i]) > 2 THEN [st EXCEPT !.err = <<"invalid table name", list[i]>>]
    ELSE LET dbName == IF Len(list[i]) = 2 THEN list[i][1] ELSE "db"
             name == TableName(list[i])
             q == Issue(st, "Tx.Query",
                        [kind |-> "auto_increment_columns", schema |-> dbName, table |-> name],
                        fail)
         IN IF q.err # NoErr THEN Wrap(q, "query auto_increment columns")
            ELSE LET done == mysqlResetColumns(name, AutoIncrementColumns(name), 1,
                                               dryRun, fail, q)
                 IN IF done.err # NoErr THEN done
                    ELSE MySQLResetLoop(list, i + 1, dryRun, fail, done)

ResetSequences_InsertOrder(database, list, dryRun, fail) ==
    LET back == [i \in 1..Len(list) |-> list[Len(list) + 1 - i]]
    IN IF database = "postgres" THEN PostgresResetLoop(back, 1, dryRun, fail, NoCalls)
       ELSE MySQLResetLoop(back, 1, dryRun, fail, NoCalls)

ResetSequences(database, list, dryRun, fail) ==
    IF database = "postgres" THEN PostgresResetLoop(list, 1, dryRun, fail, NoCalls)
    ELSE MySQLResetLoop(list, 1, dryRun, fail, NoCalls)

(***************************************************************************)
(* internal/loader: $eval and insertRow                                    *)
(***************************************************************************)
\* evalRe = ^\$eval\((.+)\)$ on the tokens of a string
EvalMatches(val) ==
    /\ IsString(val)
    /\ Len(val.text) >= 3
    /\ val.text[1] = "$eval("
    /\ val.text[Len(val.text)] = ")"

\* IsEval's first result: the expression between the parentheses
EvalExpr(val) == SubSeq(val.text, 2, Len(val.text) - 1)

\* INTERVAL '<n> <unit>' literals and what intervalRegex rewrites them to
IntervalForms == [lit \in {"INTERVAL '1 day'"} |-> "INTERVAL 1 DAY"]

convertIntervalSyntax(expr) ==
    [i \in DOMAIN expr |-> IF expr[i] \in DOMAIN IntervalForms THEN IntervalForms[expr[i]]
                           ELSE expr[i]]

\* the scalar the database returns for an expression
Scanned_Unevaluated(expr) == [type |-> "string", text |-> <<"$eval(">> \o expr \o <<")">>]

Scanned(expr) == [type |-> "scanned", text |-> expr]

\* the expression insertRow queries for a field
EvalQuery(database, val) ==
    IF database = "mysql" THEN convertIntervalSyntax(EvalExpr(val)) ELSE EvalExpr(val)

\* for col, val := range row { ... processedRow[col] = val }: the $eval
\* fields are queried one by one; cols is the order the range happens to use
RECURSIVE processRow(_, _, _, _, _, _)
processRow(database, row, cols, c, fail, st) ==
    IF c > Len(cols) THEN st
    ELSE LET val == row[cols[c]]
         IN IF EvalMatches(val)
            THEN LET expr == EvalQuery(database, val)
                     q == Issue(st.calls, "Tx.QueryRow", [kind |-> "eval", expr |-> expr], fail)
                 IN IF q.err # NoErr
                    THEN [calls |-> [q EXCEPT !.err = <<"eval", expr, @>>],
                          row |-> st.row]
                    ELSE processRow(database, row, cols, c + 1, fail,
                            [calls |-> q,
                             row |-> Overlay(st.row, [k \in {cols[c]} |-> Scanned(expr)])])
            ELSE processRow(database, row, cols, c + 1, fail,
                    [calls |-> st.calls, row |-> Overlay(st.row, [k \in {cols[c]} |-> val])])

\* Loader.insertRow: [events, n, err]; order is the order in which InsertRow
\* ranges over processedRow
insertRow(config, table, row, cols, order, fail) ==
    LET processed == processRow(config.Database, row, cols, 1, fail,
                                [calls |-> NoCalls, row |-> EmptyMap])
    IN IF processed.calls.err # NoErr THEN processed.calls
       ELSE LET ins == InsertRow(config.Database, table, processed.row, order,
                                 config.DryRun, fail - processed.calls.n)
            IN [events |-> processed.calls.events \o ins.events,
                n |-> processed.calls.n + ins.n,
                err |-> ins.err]

(***************************************************************************)
(* SpecSort: the catalog rows are scanned into the graph, then TopoSort    *)
(* is called on a requested list                                           *)
(***************************************************************************)
\* the parts of the state a specification does not use stay idle
SortIdle ==
    /\ graph = EmptyGraph
    /\ inputTables = <<>>
    /\ sortPc = "idle"
    /\ sortOrder = <<>>
    /\ sortErr = NoErr

MergeIdle ==
    /\ slices = <<>>
    /\ mergePc = "idle"
    /\ mergeResult = <<>>

\* no ParseFile outcome yet
NoOutcome == [fixtures |-> EmptyFixtures, err |-> NoErr, panic |-> NoPanic]

ParseIdle ==
    /\ docs = <<>>
    /\ parsePc = "idle"
    /\ parseOut = NoOutcome

LoadIdle ==
    /\ cfg = <<>>
    /\ catalog = <<>>
    /\ loadPc = "idle"
    /\ loadFixtures = EmptyFixtures
    /\ loadTables = <<>>
    /\ loadDeps = EmptyGraph
    /\ loadSorted = <<>>
    /\ loadK = 0
    /\ loadJ = 0
    /\ tx = "none"
    /\ trace = <<>>
    /\ loadErr = NoErr

SortInit ==
    /\ graph = EmptyGraph
    /\ inputTables = <<>>
    /\ sortPc = "scan"
    /\ sortOrder = <<>>
    /\ sortErr = NoErr
    /\ MergeIdle
    /\ ParseIdle
    /\ LoadIdle

ScanRow(child, parent) ==
    /\ sortPc = "scan"
    /\ NumEdges(graph) < MaxFK
    /\ graph' = AppendEdge(graph, child, parent)
    /\ UNCHANGED <<inputTables, sortPc, sortOrder, sortErr>>
    /\ UNCHANGED <<mergeVars, parseVars, loadVars>>

CallTopoSort(tables) ==
    /\ sortPc = "scan"
    /\ inputTables' = tables
    /\ sortOrder' = TopoSort(graph, tables).order
    /\ sortErr' = TopoSort(graph, tables).err
    /\ sortPc' = "sorted"
    /\ UNCHANGED graph
    /\ UNCHANGED <<mergeVars, parseVars, loadVars>>

SortNext ==
    \/ \E child, parent \in Tables : ScanRow(child, parent)
    \/ \E tables \in SeqsUpTo(Tables, MaxReq) : CallTopoSort(tables)

SpecSort == SortInit /\ [][SortNext]_vars

(***************************************************************************)
(* SpecMerge: mergeRowsByID(first, second) on every pair of row lists      *)
(***************************************************************************)
\* rows with or without an id; the name tells the rows of one id apart
MergeRows ==
    {[id |-> k, name |-> n] : k \in IdValues, n \in {StrVal("a"), StrVal("b")}}
        \cup {[name |-> n] : n \in {StrVal("a"), StrVal("b")}}

MergeInit ==
    /\ slices \in [1..2 -> SeqsUpTo(MergeRows, MaxMergeRows)]
    /\ mergePc = "args"
    /\ mergeResult = <<>>
    /\ SortIdle
    /\ ParseIdle
    /\ LoadIdle

CallMergeRowsByID(iter) ==
    /\ mergePc = "args"
    /\ mergeResult' = mergeRowsByID(slices, iter)
    /\ mergePc' = "merged"
    /\ UNCHANGED slices
    /\ UNCHANGED <<sortVars, parseVars, loadVars>>

MergeNext == \E iter \in Perms(IdValues) : CallMergeRowsByID(iter)

SpecMerge == MergeInit /\ [][MergeNext]_vars

(***************************************************************************)
(* SpecInclude: documents are written (include entries, rows with an id,   *)
(* each row naming its document), then ParseFile(FilePath) runs            *)
(***************************************************************************)
Paths == {"main.yml", "base.yml", "addon.yml"}

IncludeTables == {Users, Orders}

\* the ids a document may declare in a table
DeclarableIds(table) == IF table = Users THEN IdValues ELSE {IntVal("1")}

EmptyDoc == [include |-> <<>>, templates |-> <<>>, tables |-> EmptyFixtures]

RECURSIVE SumOver(_, _)
SumOver(f, S) ==
    IF S = {} THEN 0
    ELSE LET x == CHOOSE y \in S : TRUE IN f[x] + SumOver(f, S \ {x})

NumIncludes(d) == SumOver([p \in DOMAIN d |-> Len(d[p].include)], DOMAIN d)

NumRows(tables) == SumOver([t \in DOMAIN tables |-> Len(tables[t])], DOMAIN tables)

NumDeclared(d) == SumOver([p \in DOMAIN d |-> NumRows(d[p].tables)], DOMAIN d)

IncludeInit ==
    /\ docs = [p \in Paths |-> EmptyDoc]
    /\ parsePc = "files"
    /\ parseOut = NoOutcome
    /\ SortIdle
    /\ MergeIdle
    /\ LoadIdle

AddInclude(path, target) ==
    /\ parsePc = "files"
    /\ NumIncludes(docs) < MaxIncludes
    /\ docs' = [docs EXCEPT ![path].include = Append(@, target)]
    /\ UNCHANGED <<parsePc, parseOut>>
    /\ UNCHANGED <<sortVars, mergeVars, loadVars>>

DeclareRow(path, table, id) ==
    /\ parsePc = "files"
    /\ NumDeclared(docs) < MaxDeclared
    /\ \A i \in DOMAIN RowsAt(docs[path].tables, table) : docs[path].tables[table][i]["id"] # id
    /\ docs' = [docs EXCEPT ![path].tables =
                   [t \in DOMAIN @ \cup {table} |->
                       IF t = table
                       THEN Append(RowsAt(@, table), [id |-> id, name |-> StrVal(path)])
                       ELSE @[t]]]
    /\ UNCHANGED <<parsePc, parseOut>>
    /\ UNCHANGED <<sortVars, mergeVars, loadVars>>

CallParseFile(iter) ==
    /\ parsePc = "files"
    /\ parseOut' = ParseFile(docs, FilePath, iter)
    /\ parsePc' = "parsed"
    /\ UNCHANGED docs
    /\ UNCHANGED <<sortVars, mergeVars, loadVars>>

IncludeNext ==
    \/ \E path, target \in Paths : AddInclude(path, target)
    \/ \E path \in Paths, table \in IncludeTables :
          \E id \in DeclarableIds(table) : DeclareRow(path, table, id)
    \/ \E iter \in Perms(IdValues) : CallParseFile(iter)

SpecInclude == IncludeInit /\ [][IncludeNext]_vars

(***************************************************************************)
(* SpecTemplate: one document with templates base, admin and super of one  *)
(* table (each present or not, extending any of them or nothing, defining  *)
(* any of the field keys with a value that names it) and one row that      *)
(* extends one of them, then ParseFile(FilePath) runs                      *)
(***************************************************************************)
TemplateTable == Users

TemplateNames == <<(<<"base">>), (<<"admin">>), (<<"super">>)>>

FieldKeys == {"role", "active"}

\* the maps that give some of the field keys the value v
FieldMaps(v) == {[k \in K |-> v] : K \in SUBSET FieldKeys}

TemplateDefs(name) ==
    {[table |-> TemplateTable, name |-> name, extends |-> e, fields |-> f] :
        e \in Range(TemplateNames) \cup {<<>>}, f \in FieldMaps(StrVal(name[1]))}

\* the template with this name declared or not
OptionalTemplate(name) == {<<>>} \cup {<<d>> : d \in TemplateDefs(name)}

TemplateLists ==
    {a \o b \o c : a \in OptionalTemplate(TemplateNames[1]),
                   b \in OptionalTemplate(TemplateNames[2]),
                   c \in OptionalTemplate(TemplateNames[3])}

ExtendingRows ==
    {Overlay([id |-> IntVal("1"), extends |-> [type |-> "string", text |-> n]], f) :
        n \in Range(TemplateNames), f \in FieldMaps(StrVal("row"))}

TemplateInit ==
    /\ docs \in {[p \in {FilePath} |->
                    [include |-> <<>>, templates |-> ts,
                     tables |-> [t \in {TemplateTable} |-> <<r>>]]] :
                 ts \in TemplateLists, r \in ExtendingRows}
    /\ parsePc = "files"
    /\ parseOut = NoOutcome
    /\ SortIdle
    /\ MergeIdle
    /\ LoadIdle

TemplateNext == \E iter \in Perms(IdValues) : CallParseFile(iter)

SpecTemplate == TemplateInit /\ [][TemplateNext]_vars

(***************************************************************************)
(* SpecScope: main.yml, base.yml and addon.yml include one another, each   *)
(* may define the templates base and admin (admin extends base) of one     *)
(* table with fields that name the defining document, and each may declare *)
(* a row without id that extends one of them; then ParseFile(FilePath)     *)
(***************************************************************************)
ScopeIncludes ==
    {[p \in Paths |-> IF p = "main.yml" THEN m ELSE IF p = "base.yml" THEN b ELSE <<>>] :
        m \in {<<>>, <<"base.yml">>, <<"base.yml", "addon.yml">>, <<"addon.yml", "base.yml">>},
        b \in {<<>>, <<"addon.yml">>}}

ScopeBase(path) ==
    [table |-> TemplateTable, name |-> <<"base">>, extends |-> <<>>,
     fields |-> [role |-> StrVal(path)]]

ScopeAdmin(path) ==
    [table |-> TemplateTable, name |-> <<"admin">>, extends |-> <<"base">>,
     fields |-> [active |-> StrVal(path)]]

ScopeTemplates(path) ==
    {<<>>, <<ScopeBase(path)>>, <<ScopeAdmin(path)>>, <<ScopeBase(path), ScopeAdmin(path)>>}

ScopeRows(path) ==
    {EmptyFixtures} \cup
    {[t \in {TemplateTable} |->
         <<[name |-> StrVal(path), extends |-> [type |-> "string", text |-> n]]>>] :
        n \in {<<"base">>, <<"admin">>}}

ScopeInit ==
    /\ docs \in {[p \in Paths |-> [include |-> inc[p], templates |-> ts[p], tables |-> rs[p]]] :
                    inc \in ScopeIncludes,
                    ts \in {f \in [Paths -> UNION {ScopeTemplates(q) : q \in Paths}] :
                               \A q \in Paths : f[q] \in ScopeTemplates(q)},
                    rs \in {f \in [Paths -> UNION {ScopeRows(q) : q \in Paths}] :
                               \A q \in Paths : f[q] \in ScopeRows(q)}}
    /\ parsePc = "files"
    /\ parseOut = NoOutcome
    /\ SortIdle
    /\ MergeIdle
    /\ LoadIdle

ScopeNext == \E iter \in Perms(IdValues) : CallParseFile(iter)

SpecScope == ScopeInit /\ [][ScopeNext]_vars

(***************************************************************************)
(* SpecDataset: main.yml, which may include base.yml, and base.yml each    *)
(* declare rows of one table, with repeated ids and rows without id        *)
(***************************************************************************)
DatasetDoc(include, rows) ==
    [include |-> include, templates |-> <<>>,
     tables |-> IF rows = <<>> THEN EmptyFixtures ELSE [t \in {Users} |-> rows]]

DatasetInit ==
    /\ docs \in {[p \in {FilePath, "base.yml"} |->
                     IF p = FilePath THEN DatasetDoc(inc, own) ELSE DatasetDoc(<<>>, base)] :
                    inc \in {<<>>, <<"base.yml">>},
                    own \in SeqsUpTo(MergeRows, MaxMergeRows),
                    base \in SeqsUpTo(MergeRows, MaxMergeRows)}
    /\ parsePc = "files"
    /\ parseOut = NoOutcome
    /\ SortIdle
    /\ MergeIdle
    /\ LoadIdle

DatasetNext == \E iter \in Perms(IdValues) : CallParseFile(iter)

SpecDataset == DatasetInit /\ [][DatasetNext]_vars

(***************************************************************************)
(* SpecLoad: Loader.Load on one fixture file, against a schema with some   *)
(* foreign keys, under every configuration and both dialects; the driver   *)
(* may fail any single call                                                *)
(***************************************************************************)
\* foreign keys of the schema Load runs against
MaxLoadFK == 2

Legacy == <<"legacy">>

\* the foreign keys a schema may have
FKEdges ==
    {[child |-> Orders, parent |-> Users], [child |-> Items, parent |-> Orders],
     [child |-> Users, parent |-> Orders]}

Catalogs == {c \in SeqsUpTo(FKEdges, MaxLoadFK) : NoDup(c)}

Configs == [Truncate : BOOLEAN, ResetSeq : BOOLEAN, DryRun : BOOLEAN,
            Database : {"postgres", "mysql"}]

EvalValue == [type |-> "string", text |-> <<"$eval(", "SELECT NOW() - ", "INTERVAL '1 day'", ")">>]

\* what the fixture file may declare for each table
UsersRows ==
    {<<>>, <<[id |-> IntVal("1"), name |-> StrVal("ann")]>>,
     <<[id |-> IntVal("1"), name |-> StrVal("ann")], [id |-> IntVal("2"), name |-> StrVal("bob")]>>}

OrdersRows ==
    {<<>>, <<[id |-> IntVal("1"), user_id |-> IntVal("1")]>>,
     <<[id |-> IntVal("1"), created_at |-> EvalValue]>>}

OtherTables ==
    {EmptyFixtures, [t \in {Items} |-> <<[id |-> IntVal("1")]>>],
     [t \in {Legacy} |-> <<[name |-> StrVal("old")]>>]}

\* a table key is in the document when it has rows
LoadDocs ==
    {[include |-> <<>>, templates |-> <<>>,
      tables |-> Overlay([t \in {x \in {Users, Orders} : (IF x = Users THEN u ELSE o) # <<>>} |->
                             IF t = Users THEN u ELSE o], other)] :
        u \in UsersRows, o \in OrdersRows, other \in OtherTables}

\* file systems on which the resolution fails: no file at FilePath, a file
\* that includes itself, a row that extends a template extending itself
BrokenFiles ==
    {[p \in {} |-> EmptyDoc],
     [p \in {FilePath} |->
         [include |-> <<FilePath>>, templates |-> <<>>,
          tables |-> [t \in {Users} |-> <<[id |-> IntVal("1"), name |-> StrVal("ann")]>>]]],
     [p \in {FilePath} |->
         [include |-> <<>>,
          templates |-> <<[table |-> Users, name |-> <<"base">>, extends |-> <<"base">>,
                           fields |-> EmptyMap]>>,
          tables |-> [t \in {Users} |->
                         <<[id |-> IntVal("1"),
                            extends |-> [type |-> "string", text |-> <<"base">>]]>>]]]}

LoadInit ==
    /\ cfg \in Configs
    /\ catalog \in Catalogs
    /\ docs \in {[p \in {FilePath} |-> d] : d \in LoadDocs} \cup BrokenFiles
    /\ parsePc = "idle"
    /\ parseOut = NoOutcome
    /\ loadPc = "parse"
    /\ loadFixtures = EmptyFixtures
    /\ loadTables = <<>>
    /\ loadDeps = EmptyGraph
    /\ loadSorted = <<>>
    /\ loadK = 0
    /\ loadJ = 0
    /\ tx = "none"
    /\ trace = <<>>
    /\ loadErr = NoErr
    /\ SortIdle
    /\ MergeIdle

\* for i := len(sorted) - 1; i >= 0; i--: the number of iterations and the
\* table of the k-th one
Iterations_StopBeforeFirst(list) == Len(list) - 1

Iterations(list) == Len(list)

InsertTable_SortOrder(list, k) == list[k]

InsertTable(list, k) == list[Len(list) + 1 - k]

\* the next row the two loops reach from iteration k, row j
RECURSIVE NextRow(_, _, _, _)
NextRow(fx, list, k, j) ==
    IF k > Iterations(list) THEN [k |-> 0, j |-> 0, done |-> TRUE]
    ELSE IF j > Len(RowsAt(fx, InsertTable(list, k))) THEN NextRow(fx, list, k + 1, 1)
    ELSE [k |-> k, j |-> j, done |-> FALSE]

\* where Load stands when the loops are at iteration k, row j
LoopPc_SkipReset(config, fx, list, k, j) ==
    IF ~NextRow(fx, list, k, j).done THEN "insert" ELSE "commit"

LoopPc(config, fx, list, k, j) ==
    IF ~NextRow(fx, list, k, j).done THEN "insert"
    ELSE IF config.ResetSeq THEN "reset" ELSE "commit"

\* _ = tx.Rollback()
RollbackCalls_None == <<>>

RollbackCalls == <<[op |-> "Tx.Rollback", stmt |-> [kind |-> "rollback"], ok |-> TRUE]>>

\* the driver fails none (0) or one of the calls the handler makes
CallsOf(run) == 0..run.n

\* Load returns err: nothing else changes
LoadReturns(err) ==
    /\ loadErr' = err
    /\ loadPc' = "returned"

\* lines 49-57: ParseFile, then the table names in map-iteration order
Load_ParseFile(iter) ==
    /\ loadPc = "parse"
    /\ \E out \in {ParseFile(docs, FilePath, iter)} :
          \E order \in Perms(DOMAIN out.fixtures) :
             IF out.panic # NoPanic
             THEN /\ loadPc' = "panicked"
                  /\ UNCHANGED <<loadFixtures, loadTables, loadErr>>
             ELSE IF out.err # NoErr
             THEN /\ LoadReturns(out.err)
                  /\ UNCHANGED <<loadFixtures, loadTables>>
             ELSE /\ loadFixtures' = out.fixtures
                  /\ loadTables' = order
                  /\ loadPc' = "graph"
                  /\ UNCHANGED loadErr
    /\ UNCHANGED <<cfg, catalog, loadDeps, loadSorted, loadK, loadJ, tx, trace>>
    /\ UNCHANGED <<sortVars, mergeVars, parseVars>>

\* lines 59-62
Load_GetDependencyGraph ==
    /\ loadPc = "graph"
    /\ \E fail \in CallsOf(GetDependencyGraph(cfg.Database, catalog, 0)) :
       LET run == GetDependencyGraph(cfg.Database, catalog, fail)
       IN /\ trace' = trace \o run.events
          /\ IF run.err # NoErr
             THEN /\ LoadReturns(run.err)
                  /\ UNCHANGED loadDeps
             ELSE /\ loadDeps' = run.graph
                  /\ loadPc' = "sort"
                  /\ UNCHANGED loadErr
    /\ UNCHANGED <<cfg, catalog, loadFixtures, loadTables, loadSorted, loadK, loadJ, tx>>
    /\ UNCHANGED <<sortVars, mergeVars, parseVars>>

\* lines 64-67
Load_TopoSort ==
    /\ loadPc = "sort"
    /\ LET out == TopoSort(loadDeps, loadTables)
       IN IF out.err # NoErr
          THEN /\ LoadReturns(out.err)
               /\ UNCHANGED loadSorted
          ELSE /\ loadSorted' = out.order
               /\ loadPc' = "begin"
               /\ UNCHANGED loadErr
    /\ UNCHANGED <<cfg, catalog, loadFixtures, loadTables, loadDeps, loadK, loadJ, tx, trace>>
    /\ UNCHANGED <<sortVars, mergeVars, parseVars>>

\* lines 69-72, and the loop conditions up to the next call
Load_Begin(ok) ==
    /\ loadPc = "begin"
    /\ trace' = Append(trace, [op |-> "DB.Begin", stmt |-> [kind |-> "begin"], ok |-> ok])
    /\ IF ~ok
       THEN /\ LoadReturns(<<"begin tx", DriverError([kind |-> "begin"])>>)
            /\ UNCHANGED <<tx, loadK, loadJ>>
       ELSE /\ tx' = "open"
            /\ UNCHANGED loadErr
            /\ IF cfg.Truncate
               THEN /\ loadPc' = "truncate"
                    /\ UNCHANGED <<loadK, loadJ>>
               ELSE /\ loadPc' = LoopPc(cfg, loadFixtures, loadSorted, 1, 1)
                    /\ loadK' = NextRow(loadFixtures, loadSorted, 1, 1).k
                    /\ loadJ' = NextRow(loadFixtures, loadSorted, 1, 1).j
    /\ UNCHANGED <<cfg, catalog, loadFixtures, loadTables, loadDeps, loadSorted>>
    /\ UNCHANGED <<sortVars, mergeVars, parseVars>>

\* a step inside the transaction failed: rollback, return
LoadAborts(events, err) ==
    /\ trace' = trace \o events \o RollbackCalls
    /\ tx' = "rolledback"
    /\ LoadReturns(err)
    /\ UNCHANGED <<loadK, loadJ>>

\* lines 74-80
Load_Truncate ==
    /\ loadPc = "truncate"
    /\ \E fail \in CallsOf(TruncateTables(cfg.Database, loadSorted, cfg.DryRun, 0)) :
       LET run == TruncateTables(cfg.Database, loadSorted, cfg.DryRun, fail)
       IN IF run.err # NoErr
          THEN LoadAborts(run.events, run.err)
          ELSE /\ trace' = trace \o run.events
               /\ loadPc' = LoopPc(cfg, loadFixtures, loadSorted, 1, 1)
               /\ loadK' = NextRow(loadFixtures, loadSorted, 1, 1).k
               /\ loadJ' = NextRow(loadFixtures, loadSorted, 1, 1).j
               /\ UNCHANGED <<tx, loadErr>>
    /\ UNCHANGED <<cfg, catalog, loadFixtures, loadTables, loadDeps, loadSorted>>
    /\ UNCHANGED <<sortVars, mergeVars, parseVars>>

\* lines 82-93: one row of one table
Load_InsertRow ==
    /\ loadPc = "insert"
    /\ LET table == InsertTable(loadSorted, loadK)
           row == loadFixtures[table][loadJ]
       IN \E cols, order \in Perms(DOMAIN row) :
          \E fail \in CallsOf(insertRow(cfg, table, row, cols, order, 0)) :
             LET run == insertRow(cfg, table, row, cols, order, fail)
             IN IF run.err # NoErr
                THEN LoadAborts(run.events, <<"insert into", table, run.err>>)
                ELSE /\ trace' = trace \o run.events
                     /\ loadPc' = LoopPc(cfg, loadFixtures, loadSorted, loadK, loadJ + 1)
                     /\ loadK' = NextRow(loadFixtures, loadSorted, loadK, loadJ + 1).k
                     /\ loadJ' = NextRow(loadFixtures, loadSorted, loadK, loadJ + 1).j
                     /\ UNCHANGED <<tx, loadErr>>
    /\ UNCHANGED <<cfg, catalog, loadFixtures, loadTables, loadDeps, loadSorted>>
    /\ UNCHANGED <<sortVars, mergeVars, parseVars>>

\* lines 95-101
Load_ResetSequences ==
    /\ loadPc = "reset"
    /\ \E fail \in CallsOf(ResetSequences(cfg.Database, loadSorted, cfg.DryRun, 0)) :
       LET run == ResetSequences(cfg.Database, loadSorted, cfg.DryRun, fail)
       IN IF run.err # NoErr
          THEN LoadAborts(run.events, run.err)
          ELSE /\ trace' = trace \o run.events
               /\ loadPc' = "commit"
               /\ UNCHANGED <<tx, loadErr, loadK, loadJ>>
    /\ UNCHANGED <<cfg, catalog, loadFixtures, loadTables, loadDeps, loadSorted>>
    /\ UNCHANGED <<sortVars, mergeVars, parseVars>>

\* line 103
Load_Commit(ok) ==
    /\ loadPc = "commit"
    /\ trace' = Append(trace, [op |-> "Tx.Commit", stmt |-> [kind |-> "commit"], ok |-> ok])
    /\ tx' = IF ok THEN "committed" ELSE "broken"
    /\ LoadReturns(IF ok THEN NoErr ELSE DriverError([kind |-> "commit"]))
    /\ UNCHANGED <<loadK, loadJ>>
    /\ UNCHANGED <<cfg, catalog, loadFixtures, loadTables, loadDeps, loadSorted>>
    /\ UNCHANGED <<sortVars, mergeVars, parseVars>>

LoadNext ==
    \/ \E iter \in Perms(IdValues) : Load_ParseFile(iter)
    \/ Load_GetDependencyGraph
    \/ Load_TopoSort
    \/ \E ok \in BOOLEAN : Load_Begin(ok)
    \/ Load_Truncate
    \/ Load_InsertRow
    \/ Load_ResetSequences
    \/ \E ok \in BOOLEAN : Load_Commit(ok)

SpecLoad == LoadInit /\ [][LoadNext]_vars

(***************************************************************************)
(* Graph notions the claims about TopoSort are stated with                 *)
(***************************************************************************)
Parents(g, n) == Range(GraphAt(g, n))

\* S together with every table reachable from S along child -> parent edges
RECURSIVE Closure(_, _)
Closure(g, S) ==
    LET next == S \cup UNION {Parents(g, n) : n \in S}
    IN IF next = S THEN S ELSE Closure(g, next)

\* tables reachable from n along at least one edge
Ancestors(g, n) == Closure(g, Parents(g, n))

OnCycle(g, n) == n \in Ancestors(g, n)

Acyclic(g) == \A n \in DOMAIN g : ~OnCycle(g, n)

CycleReachable(g, S) == \E n \in Closure(g, S) : OnCycle(g, n)

(***************************************************************************)
(* Claims about TopoSort                                                   *)
(***************************************************************************)
\* C1: for an acyclic graph and any requested list (any order, duplicates
\* allowed) TopoSort returns, without error, a list holding every requested
\* table and every transitive parent of one exactly once, and nothing else.
C1_SortIsClosureOnce ==
    (sortPc = "sorted" /\ Acyclic(graph)) =>
        /\ sortErr = NoErr
        /\ NoDup(sortOrder)
        /\ Range(sortOrder) = Closure(graph, Range(inputTables))

\* a parent reached along two paths, not requested itself, the request
\* naming its child twice
C1_Witness ==
    /\ sortPc = "sorted"
    /\ Acyclic(graph)
    /\ ~NoDup(inputTables)
    /\ \E a, b, c \in Tables :
          /\ a \in Range(inputTables) /\ c \notin Range(inputTables)
          /\ {b, c} \subseteq Parents(graph, a) /\ c \in Parents(graph, b)
          /\ b # c /\ c \in Range(sortOrder)

\* C2: TopoSort returns a cycle error and no list exactly when a cycle
\* (a self-loop included) is reachable from the requested tables; an
\* empty request gives an empty list and no error whatever the graph is.
C2_CycleErrorIffReachable ==
    sortPc = "sorted" =>
        /\ (sortErr # NoErr) = CycleReachable(graph, Range(inputTables))
        /\ sortErr # NoErr => (sortOrder = <<>> /\ sortErr[1] = "cyclic dependency detected")
        /\ inputTables = <<>> => (sortErr = NoErr /\ sortOrder = <<>>)

\* a cycle that is met only after another requested table was finished
C2_Witness ==
    /\ sortPc = "sorted"
    /\ sortErr # NoErr
    /\ Len(inputTables) >= 2
    /\ ~CycleReachable(graph, {inputTables[1]})
    /\ \E n \in Tables : n \in Parents(graph, n) \/ Cardinality(Ancestors(graph, n)) >= 2

\* C3: on an acyclic graph every table of the output stands before every
\* table it references, so that in the reversed output each parent stands
\* before its child.
C3_DependentBeforeDependency ==
    (sortPc = "sorted" /\ Acyclic(graph)) =>
        \A child, parent \in Range(sortOrder) :
            parent \in Parents(graph, child) =>
                /\ IndexOf(sortOrder, child) < IndexOf(sortOrder, parent)
                /\ IndexOf(ReverseOrder(sortOrder), parent)
                       < IndexOf(ReverseOrder(sortOrder), child)

\* a chain of two edges sorted from a request that names the grandparent first
C3_Witness ==
    /\ sortPc = "sorted"
    /\ Acyclic(graph)
    /\ Len(sortOrder) = 3
    /\ \E a, b, c \in Tables :
          /\ b \in Parents(graph, a) /\ c \in Parents(graph, b)
          /\ Len(inputTables) >= 2 /\ inputTables[1] = c /\ inputTables[2] = a

(***************************************************************************)
(* Claims about mergeRowsByID                                              *)
(***************************************************************************)
IdsOf(rows) == {rows[i]["id"] : i \in {j \in DOMAIN rows : HasID(rows[j])}}

\* the last row of rows that carries id k
LastWithID(rows, k) ==
    rows[CHOOSE i \in DOMAIN rows :
            /\ HasID(rows[i]) /\ rows[i]["id"] = k
            /\ \A j \in DOMAIN rows : (HasID(rows[j]) /\ rows[j]["id"] = k) => j <= i]

NoIDRowsOf(rows) == SelectSeq(rows, LAMBDA r : ~HasID(r))

\* C7: for an id k carried by a row of both inputs the output holds
\* exactly one row with id k, and it is the second input's row (its last
\* one for k); the rows without an id of both inputs are all in the
\* output, first's then second's, in input order and with repetitions kept.
C7_MergeSecondWinsNoIDConcat ==
    mergePc = "merged" =>
        /\ \A k \in IdsOf(slices[1]) \cap IdsOf(slices[2]) :
              /\ Cardinality({i \in DOMAIN mergeResult :
                                 HasID(mergeResult[i]) /\ mergeResult[i]["id"] = k}) = 1
              /\ LastWithID(mergeResult, k) = LastWithID(slices[2], k)
        /\ NoIDRowsOf(mergeResult) = NoIDRowsOf(slices[1]) \o NoIDRowsOf(slices[2])

\* both inputs carry id 1 with different rows and each has a row without id
C7_Witness ==
    /\ mergePc = "merged"
    /\ \E k \in IdsOf(slices[1]) \cap IdsOf(slices[2]) :
          LastWithID(slices[1], k) # LastWithID(slices[2], k)
    /\ NoIDRowsOf(slices[1]) # <<>> /\ NoIDRowsOf(slices[2]) # <<>>
    /\ NoIDRowsOf(slices[1]) = NoIDRowsOf(slices[2])

(***************************************************************************)
(* Claims about document resolution                                        *)
(***************************************************************************)
Succeeded(out) == out.err = NoErr /\ out.panic = NoPanic

\* the include entries as a graph: document -> included documents
IncludeGraph(fs) == [p \in DOMAIN fs |-> fs[p].include]

Declares(fs, path, table, k) == k \in IdsOf(RowsAt(fs[path].tables, table))

Max(S) == CHOOSE x \in S : \A y \in S : y <= x

\* the row that is to stand for id k of the table when path is resolved, as
\* a sequence of at most one row: the document's own row if it declares k,
\* otherwise that of its last include that has one
RECURSIVE Winner(_, _, _, _)
Winner(fs, path, table, k) ==
    IF Declares(fs, path, table, k)
    THEN <<LastWithID(fs[path].tables[table], k)>>
    ELSE LET incs == fs[path].include
             having == {i \in DOMAIN incs : Winner(fs, incs[i], table, k) # <<>>}
         IN IF having = {} THEN <<>> ELSE Winner(fs, incs[Max(having)], table, k)

RowsWithID(rows, k) == SelectSeq(rows, LAMBDA r : HasID(r) /\ r["id"] = k)

\* C8: when a document with includes resolves, for every table and id k
\* the dataset holds exactly the row of the document itself if it declares
\* k, otherwise that of the last include (in declaration order, nested
\* includes alike) whose dataset has k, and no row for k if none has.
C8_OwnThenLastIncludeWins ==
    (parsePc = "parsed" /\ Succeeded(parseOut)) =>
        \A table \in IncludeTables, k \in IdValues :
            RowsWithID(RowsAt(parseOut.fixtures, table), k) = Winner(docs, FilePath, table, k)

\* main includes base and addon, both declare id 1 of users (addon, the
\* later one, wins) and main itself declares only id 2
C8_Witness ==
    /\ parsePc = "parsed" /\ Succeeded(parseOut)
    /\ docs[FilePath].include = <<"base.yml", "addon.yml">>
    /\ Declares(docs, "base.yml", Users, IntVal("1"))
    /\ Declares(docs, "addon.yml", Users, IntVal("1"))
    /\ Declares(docs, FilePath, Users, IntVal("2"))
    /\ Len(parseOut.fixtures[Users]) = 2
    /\ \E i \in 1..2 : parseOut.fixtures[Users][i] =
                          [id |-> IntVal("1"), name |-> StrVal("addon.yml")]

\* C9: if the resolved document includes itself, directly or through other
\* documents, ParseFile ends with the error "cyclic include detected" and
\* no dataset.
C9_IncludeCycleIsError ==
    (parsePc = "parsed" /\ CycleReachable(IncludeGraph(docs), {FilePath})) =>
        /\ parseOut.err # NoErr
        /\ parseOut.err[1] = "cyclic include detected"
        /\ parseOut.fixtures = EmptyFixtures
        /\ parseOut.panic = NoPanic

\* main includes base, which declares a row, and then itself
C9_Witness ==
    /\ parsePc = "parsed"
    /\ docs[FilePath].include = <<"base.yml", FilePath>>
    /\ docs["base.yml"].tables # EmptyFixtures
    /\ parseOut.err = <<"cyclic include detected", FilePath>>

\* the templates the document registers for the table: the last of a name
Registry(fs, path, table) ==
    LET ts == SelectSeq(fs[path].templates, LAMBDA t : t.table = table)
    IN [n \in {ts[i].name : i \in DOMAIN ts} |->
           ts[Max({i \in DOMAIN ts : ts[i].name = n})]]

\* the value key gets from the nearest of name, its parent, its parent's
\* parent, ... that defines it, as a sequence of at most one value
RECURSIVE Nearest(_, _, _)
Nearest(reg, name, key) ==
    IF name \notin DOMAIN reg THEN <<>>
    ELSE IF key \in DOMAIN reg[name].fields THEN <<reg[name].fields[key]>>
    ELSE IF reg[name].extends = <<>> THEN <<>>
    ELSE Nearest(reg, reg[name].extends, key)

\* the row the claim describes for a declared row that extends a template
ExpectedRow(reg, row) ==
    LET keys == {k \in (DOMAIN row \ {"extends"}) \cup FieldKeys :
                    k \in DOMAIN row \/ Nearest(reg, row["extends"].text, k) # <<>>}
    IN [k \in keys |-> IF k \in DOMAIN row THEN row[k]
                       ELSE Nearest(reg, row["extends"].text, k)[1]]

\* C10: a resolved row that extends template T holds, for every key, the
\* row's own value if it has one, otherwise the value of the nearest of T,
\* parent(T), ... that defines the key, and no other key.
C10_RowThenNearestTemplate ==
    (parsePc = "parsed" /\ Succeeded(parseOut)) =>
        \A i \in DOMAIN docs[FilePath].tables[TemplateTable] :
            LET row == docs[FilePath].tables[TemplateTable][i]
            IN ("extends" \in DOMAIN row
                  /\ row["extends"].text \in DOMAIN Registry(docs, FilePath, TemplateTable)) =>
                  RowsWithID(parseOut.fixtures[TemplateTable], row["id"])
                      = <<ExpectedRow(Registry(docs, FilePath, TemplateTable), row)>>

\* super extends admin extends base; role comes from the row, active from
\* admin, which overrides base
C10_Witness ==
    /\ parsePc = "parsed" /\ Succeeded(parseOut)
    /\ Len(docs[FilePath].templates) = 3
    /\ docs[FilePath].templates[3].extends = <<"admin">>
    /\ docs[FilePath].templates[2].extends = <<"base">>
    /\ docs[FilePath].templates[1].extends = <<>>
    /\ docs[FilePath].templates[3].fields = EmptyMap
    /\ DOMAIN docs[FilePath].templates[2].fields = {"active"}
    /\ DOMAIN docs[FilePath].templates[1].fields = {"role", "active"}
    /\ parseOut.fixtures[TemplateTable] =
          <<[id |-> IntVal("1"), role |-> StrVal("row"), active |-> StrVal("admin")]>>

(***************************************************************************)
(* Notions the claims about Load are stated with                           *)
(***************************************************************************)
\* the name a dialect's statements use for a fixture table
DialectTable(t) == IF cfg.Database = "mysql" THEN TableName(t) ELSE t

\* a row handed to the dialect's insert, executed or only logged
IsInsert(e) == e.op \in {"Tx.Exec", "Log"} /\ e.stmt.kind = "insert"

InsertsOf(t) ==
    {i \in DOMAIN trace : IsInsert(trace[i]) /\ trace[i].stmt.table = DialectTable(t)}

AllInserts == {i \in DOMAIN trace : IsInsert(trace[i])}

\* the tables are truncated a before b, wherever both are truncated
TruncatedBefore(a, b) ==
    \A i, j \in DOMAIN trace :
        LET s == trace[i].stmt
            u == trace[j].stmt
        IN /\ (i = j /\ s.kind = "truncate" /\ {a, b} \subseteq Range(s.tables))
                 => IndexOf(s.tables, a) < IndexOf(s.tables, b)
           /\ (/\ s.kind = "truncate_table" /\ s.table = DialectTable(a)
               /\ u.kind = "truncate_table" /\ u.table = DialectTable(b)) => i < j

\* t is named by a truncate statement
Truncated(t) ==
    \E i \in DOMAIN trace :
        \/ trace[i].stmt.kind = "truncate" /\ t \in Range(trace[i].stmt.tables)
        \/ trace[i].stmt.kind = "truncate_table" /\ trace[i].stmt.table = DialectTable(t)

\* the foreign keys of the schema whose two tables the fixture declares
FixtureEdges ==
    {e \in Range(catalog) : {e.child, e.parent} \subseteq DOMAIN loadFixtures}

LoadSucceeded == loadPc = "returned" /\ loadErr = NoErr

(***************************************************************************)
(* Claims about Load                                                       *)
(***************************************************************************)
\* C4: in one Load, for every foreign key between two tables of the fixture,
\* every row of the parent is inserted before any row of the child, and the
\* child is truncated before the parent, whatever the order in which the
\* table names were handed to the sorter.
C4_ParentRowsFirstChildTruncatedFirst ==
    \A e \in FixtureEdges :
        /\ \A i \in InsertsOf(e.child), j \in InsertsOf(e.parent) : j < i
        /\ InsertsOf(e.child) # {} =>
              Cardinality(InsertsOf(e.parent)) = Len(loadFixtures[e.parent])
        /\ TruncatedBefore(e.child, e.parent)
        /\ (cfg.Truncate /\ loadPc \in {"insert", "reset", "commit"}) =>
              Truncated(e.child) /\ Truncated(e.parent)

\* a chain items -> orders -> users loaded with truncation, the names handed
\* over parent first
C4_Witness ==
    /\ LoadSucceeded
    /\ cfg.Truncate
    /\ Cardinality(FixtureEdges) = 2
    /\ loadTables = <<Users, Orders, Items>>
    /\ Cardinality(InsertsOf(Users)) = 2
    /\ InsertsOf(Orders) # {} /\ InsertsOf(Items) # {}

\* a statement on the transaction that the driver failed
StepFailed(i) == trace[i].op \in {"Tx.Exec", "Tx.Query", "Tx.QueryRow"} /\ ~trace[i].ok

\* every enabled step has run to its end
StepsComplete ==
    /\ cfg.Truncate => \A t \in Range(loadSorted) : Truncated(t)
    /\ (cfg.Truncate /\ cfg.Database = "mysql") =>
          \E i \in DOMAIN trace : trace[i].stmt = [kind |-> "set_foreign_key_checks", value |-> 1]
    /\ Cardinality(AllInserts) = NumRows(loadFixtures)
    /\ cfg.ResetSeq =>
          \A t \in Range(loadSorted) : \E i \in DOMAIN trace :
              /\ trace[i].stmt.kind \in {"reset_sequences", "auto_increment_columns"}
              /\ trace[i].stmt.table = DialectTable(t)

\* C5: once the transaction is open, a failure of truncate, of an insert, of
\* a $eval query or of the sequence reset is followed by Rollback and by
\* nothing else, Load returns the error and never commits; Commit is called
\* only after every enabled step succeeded.
C5_FailureRollsBackCommitOnlyOnSuccess ==
    /\ \A i \in DOMAIN trace :
          StepFailed(i) =>
              /\ Len(trace) = i + 1
              /\ trace[i + 1].op = "Tx.Rollback"
              /\ loadPc = "returned" /\ loadErr # NoErr
    /\ (tx = "rolledback") =>
          /\ loadPc = "returned" /\ loadErr # NoErr
          /\ trace[Len(trace)].op = "Tx.Rollback"
          /\ \A i \in DOMAIN trace : trace[i].op # "Tx.Commit"
    /\ ~(loadPc = "returned" /\ loadErr # NoErr /\ tx = "open")
    /\ \A i \in DOMAIN trace :
          trace[i].op = "Tx.Commit" =>
              /\ i = Len(trace)
              /\ \A j \in 1..(i - 1) : trace[j].ok /\ trace[j].op # "Tx.Rollback"
              /\ StepsComplete

\* the $eval query of a row fails after the truncation and an insert went through
C5_Witness ==
    /\ ~cfg.DryRun
    /\ cfg.Truncate
    /\ \E i \in DOMAIN trace :
          /\ StepFailed(i)
          /\ trace[i].stmt.kind = "eval"
          /\ \E j \in 1..(i - 1) : trace[j].op = "Tx.Exec" /\ trace[j].stmt.kind = "insert"
          /\ trace[i + 1].op = "Tx.Rollback"

\* the row handed to the insert is the declared row, $eval fields aside
PassedFor(passed, declared) ==
    /\ DOMAIN passed = DOMAIN declared
    /\ \A c \in DOMAIN declared : ~EvalMatches(declared[c]) => passed[c] = declared[c]

\* C6: Load returns success only if the transaction was committed and,
\* before the commit, every row of every table of the merged dataset was
\* handed to the dialect's insert exactly once.
C6_SuccessMeansCommittedAllRowsOnce ==
    LoadSucceeded =>
        /\ tx = "committed"
        /\ trace[Len(trace)] = [op |-> "Tx.Commit", stmt |-> [kind |-> "commit"], ok |-> TRUE]
        /\ Cardinality(AllInserts) = NumRows(loadFixtures)
        /\ \A t \in DOMAIN loadFixtures :
              \E f \in Perms(InsertsOf(t)) :
                  /\ Len(f) = Len(loadFixtures[t])
                  /\ \A j \in DOMAIN f : PassedFor(trace[f[j]].stmt.row, loadFixtures[t][j])

\* three tables, four rows, one of them with a $eval field, really executed
C6_Witness ==
    /\ LoadSucceeded
    /\ ~cfg.DryRun
    /\ Cardinality(DOMAIN loadFixtures) = 3
    /\ NumRows(loadFixtures) = 4
    /\ \E i \in DOMAIN trace : trace[i].stmt.kind = "eval"

(***************************************************************************)
(* Claims about the reserved key and template chains                       *)
(***************************************************************************)
\* C11: no row of the dataset the resolver returns holds the key extends,
\* whatever the row's extends value is and whether or not templates are
\* registered for its table.
C11_ExtendsNeverPersisted ==
    parsePc = "parsed" =>
        \A t \in DOMAIN parseOut.fixtures :
            \A i \in DOMAIN parseOut.fixtures[t] :
                "extends" \notin DOMAIN parseOut.fixtures[t][i]

\* the extends edges of a registry as a graph: template -> <<its parent>>
ExtendsGraph(reg) ==
    [n \in {x \in DOMAIN reg : reg[x].extends # <<>>} |-> <<reg[n].extends>>]

\* the templates on the ancestor chain of name, name included
ChainOf(reg, name) == Closure(ExtendsGraph(reg), {name})

ChainRevisits(reg, name) == \E n \in ChainOf(reg, name) : OnCycle(ExtendsGraph(reg), n)

\* every template of the chain is registered and the chain ends
ChainEnds(reg, name) == ChainOf(reg, name) \subseteq DOMAIN reg /\ ~ChainRevisits(reg, name)

\* C12: resolving a row whose template chain revisits a template (a template
\* extending itself included) ends by aborting the whole operation with the
\* cyclic-extends panic and yields no row; resolving a row whose chain is
\* registered and acyclic ends with the row.
C12_TemplateCycleAborts ==
    parsePc = "parsed" =>
        LET reg == Registry(docs, FilePath, TemplateTable)
            name == docs[FilePath].tables[TemplateTable][1]["extends"].text
        IN /\ ChainRevisits(reg, name) =>
                 /\ parseOut.panic # NoPanic
                 /\ parseOut.panic[1] = "cyclic extends in template"
                 /\ parseOut.fixtures = EmptyFixtures
           /\ ChainEnds(reg, name) =>
                 /\ Succeeded(parseOut)
                 /\ Len(parseOut.fixtures[TemplateTable]) = 1

\* the row extends super, super extends admin, admin and base extend each other
C12_Witness ==
    /\ parsePc = "parsed"
    /\ parseOut.panic # NoPanic
    /\ docs[FilePath].tables[TemplateTable][1]["extends"].text = <<"super">>
    /\ Len(docs[FilePath].templates) = 3
    /\ docs[FilePath].templates[3].extends = <<"admin">>
    /\ docs[FilePath].templates[2].extends = <<"base">>
    /\ docs[FilePath].templates[1].extends = <<"admin">>

(***************************************************************************)
(* Claims about dry-run and $eval                                          *)
(***************************************************************************)
\* C13: in dry-run mode Load issues no $eval query, and the insert it
\* renders reports the unevaluated expression as the field's value.
C13_DryRunNoEvalQuery ==
    cfg.DryRun =>
        \A i \in DOMAIN trace :
            /\ trace[i].stmt.kind # "eval"
            /\ IsInsert(trace[i]) =>
                  \A c \in DOMAIN trace[i].stmt.row : trace[i].stmt.row[c].type # "scanned"

\* the statements of the dialects' truncate, insert and reset operations
MutatingKinds ==
    {"truncate", "truncate_table", "insert", "reset_sequences", "alter_auto_increment"}

DialectKinds ==
    MutatingKinds \cup {"set_foreign_key_checks", "auto_increment_columns", "select_max"}

\* C14 as stated: in dry-run mode the truncate, insert and reset operations
\* of both dialects execute no statement on the transaction, each statement
\* is only rendered to the log.
C14_DryRunExecutesNothing ==
    cfg.DryRun =>
        \A i \in DOMAIN trace :
            trace[i].stmt.kind \in DialectKinds => trace[i].op = "Log"

\* C14 amended: in dry-run mode no TRUNCATE, INSERT, ALTER TABLE or sequence
\* reset statement of either dialect is executed, each is only rendered to
\* the log; Postgres executes nothing in these operations, MySQL still
\* executes the two SET FOREIGN_KEY_CHECKS statements of its truncate and the
\* catalog and MAX queries of its reset.
C14_DryRunLogsMutatingStatements ==
    cfg.DryRun =>
        \A i \in DOMAIN trace :
            /\ trace[i].stmt.kind \in MutatingKinds => trace[i].op = "Log"
            /\ (trace[i].stmt.kind \in DialectKinds /\ trace[i].op # "Log") =>
                  /\ cfg.Database = "mysql"
                  /\ \/ trace[i].op = "Tx.Exec" /\ trace[i].stmt.kind = "set_foreign_key_checks"
                     \/ trace[i].op = "Tx.Query" /\ trace[i].stmt.kind = "auto_increment_columns"
                     \/ trace[i].op = "Tx.QueryRow" /\ trace[i].stmt.kind = "select_max"

\* a MySQL dry run with truncation and reset that rendered a TRUNCATE, an
\* INSERT and an ALTER TABLE and was committed
C14_Witness ==
    /\ cfg.DryRun /\ cfg.Database = "mysql" /\ cfg.Truncate /\ cfg.ResetSeq
    /\ LoadSucceeded
    /\ \A k \in {"truncate_table", "insert", "alter_auto_increment"} :
          \E i \in DOMAIN trace : trace[i].op = "Log" /\ trace[i].stmt.kind = k
    /\ \E i \in DOMAIN trace : trace[i].stmt.kind = "set_foreign_key_checks"

\* the last insert before call i, 0 if there is none
PrevInsert(i) == Max({0} \cup {j \in AllInserts : j < i})

\* call i hands the declared row r to the insert: $eval fields hold the scalar
\* of their expression, queried on the transaction since the previous insert,
\* every other field holds its declared value
InsertsDeclared(i, r) ==
    /\ DOMAIN trace[i].stmt.row = DOMAIN r
    /\ \A c \in DOMAIN r :
          IF EvalMatches(r[c])
          THEN /\ trace[i].stmt.row[c] =
                     [type |-> "scanned", text |-> EvalQuery(cfg.Database, r[c])]
               /\ \E j \in (PrevInsert(i) + 1)..(i - 1) :
                     trace[j] = [op |-> "Tx.QueryRow",
                                 stmt |-> [kind |-> "eval",
                                           expr |-> EvalQuery(cfg.Database, r[c])],
                                 ok |-> TRUE]
          ELSE trace[i].stmt.row[c] = r[c]

\* C15: when a row is inserted, every $eval field is replaced by the scalar
\* its expression returned on the load's transaction before the insert,
\* every other field reaches the insert unchanged, and the row of the merged
\* dataset keeps its declared values.
C15_EvalSubstitutedBeforeInsert ==
    /\ \A i \in AllInserts :
          \E t \in DOMAIN loadFixtures :
              /\ trace[i].stmt.table = DialectTable(t)
              /\ \E r \in Range(loadFixtures[t]) : InsertsDeclared(i, r)
    /\ \A t \in DOMAIN loadFixtures :
          Range(loadFixtures[t]) = Range(docs[FilePath].tables[t])

\* MySQL executed the insert of the orders row with the scalar of the
\* rewritten interval expression; the dataset still holds the marker
C15_Witness ==
    /\ cfg.Database = "mysql" /\ ~cfg.DryRun
    /\ \E i \in AllInserts :
          /\ trace[i].op = "Tx.Exec"
          /\ trace[i].stmt.table = <<"orders">>
          /\ "created_at" \in DOMAIN trace[i].stmt.row
          /\ trace[i].stmt.row["created_at"] =
                [type |-> "scanned", text |-> <<"SELECT NOW() - ", "INTERVAL 1 DAY">>]
    /\ loadFixtures[Orders][1]["created_at"] = EvalValue

(***************************************************************************)
(* Claims about the order and the phases of a Load                         *)
(***************************************************************************)
\* C16: the merged dataset of a table keeps the rows in declaration order
\* (one document, no row replaced by another of its id), and Load inserts
\* the rows of a table in that order.
C16_DeclarationOrderKept ==
    \A t \in DOMAIN loadFixtures :
        LET declared == docs[FilePath].tables[t]
        IN /\ loadFixtures[t] = declared
           /\ \A i, j \in InsertsOf(t) :
                 i < j =>
                    \A a, b \in DOMAIN declared :
                        (/\ PassedFor(trace[i].stmt.row, declared[a])
                         /\ PassedFor(trace[j].stmt.row, declared[b])) => a < b

\* the resolution of the configured file fails (whatever the map order)
ResolutionFails ==
    ~Succeeded(ParseFile(docs, FilePath, CHOOSE iter \in Perms(IdValues) : TRUE))

\* the dependency sort of the fixture's tables meets a cycle
SortMeetsCycle ==
    /\ loadPc \notin {"parse", "graph", "sort"}
    /\ CycleReachable(loadDeps, DOMAIN loadFixtures)

\* C17: if the document resolution fails (missing file, include cycle,
\* template cycle) Load makes no call on the database at all; if the
\* dependency sort reports a cycle Load opens no transaction and issues no
\* truncate, insert, $eval or reset statement.
C17_NoMutationOnResolveOrSortFailure ==
    /\ ResolutionFails =>
          /\ trace = <<>>
          /\ tx = "none"
          /\ loadPc \in {"parse", "returned", "panicked"}
          /\ loadPc = "returned" => loadErr # NoErr
    /\ SortMeetsCycle =>
          /\ loadPc = "returned"
          /\ loadErr # NoErr /\ loadErr[1] = "cyclic dependency detected"
          /\ tx = "none"
          /\ \A i \in DOMAIN trace : trace[i].op \in {"DB.Query", "DB.QueryRow"}

\* the MySQL catalog makes users and orders reference each other; Load
\* returned the cycle error after its two catalog queries
C17_Witness ==
    /\ cfg.Database = "mysql" /\ cfg.Truncate
    /\ SortMeetsCycle
    /\ Len(trace) = 2
    /\ Users \in DOMAIN loadFixtures

\* the document names a table without a schema
NamesUnqualifiedTable ==
    /\ FilePath \in DOMAIN docs
    /\ \E t \in DOMAIN docs[FilePath].tables : Len(t) < 2

\* C18: a document that names a table without a schema qualifier is
\* rejected as a document error before any call on the database, on both
\* dialects and whatever the truncate and reset flags are.
C18_UnqualifiedTableRejected ==
    (NamesUnqualifiedTable /\ loadPc # "parse") =>
        /\ loadPc = "returned"
        /\ loadErr # NoErr
        /\ trace = <<>>
        /\ tx = "none"

\* the phase a call belongs to
CallPhase(e) ==
    CASE e.stmt.kind \in {"select_database", "foreign_keys"} -> 1
      [] e.stmt.kind = "begin" -> 2
      [] e.stmt.kind \in {"truncate", "truncate_table", "set_foreign_key_checks"} -> 3
      [] e.stmt.kind \in {"eval", "insert"} -> 4
      [] e.stmt.kind \in {"reset_sequences", "auto_increment_columns", "select_max",
                          "alter_auto_increment"} -> 5
      [] e.stmt.kind \in {"commit", "rollback"} -> 6

Terminal == loadPc \in {"returned", "panicked"}

Committed == loadPc = "returned" /\ loadErr = NoErr /\ tx = "committed"

Failed == loadPc = "panicked" \/ (loadPc = "returned" /\ loadErr # NoErr /\ tx # "committed")

\* the phases that may follow the inserts, the truncation, the begin
AfterInserts == IF cfg.ResetSeq THEN {"reset"} ELSE {"commit"}

AfterTruncate == {"insert"} \cup AfterInserts

\* the phases Load may stand in one step after phase p
NextPhases(p) ==
    CASE p = "parse" -> {"graph", "returned", "panicked"}
      [] p = "graph" -> {"sort", "returned"}
      [] p = "sort" -> {"begin", "returned"}
      [] p = "begin" -> (IF cfg.Truncate THEN {"truncate"} ELSE AfterTruncate) \cup {"returned"}
      [] p = "truncate" -> AfterTruncate \cup {"returned"}
      [] p = "insert" -> AfterTruncate \cup {"returned"}
      [] p = "reset" -> {"commit", "returned"}
      [] p = "commit" -> {"returned"}
      [] OTHER -> {}

\* the step of the phase Load stands in makes a call that can fail, or
\* meets a failing document or a cycle
StepCanFail ==
    CASE loadPc = "parse" -> ResolutionFails
      [] loadPc \in {"graph", "begin", "commit"} -> TRUE
      [] loadPc = "sort" -> CycleReachable(loadDeps, DOMAIN loadFixtures)
      [] loadPc = "truncate" -> ~cfg.DryRun \/ cfg.Database = "mysql"
      [] loadPc = "insert" ->
            \/ ~cfg.DryRun
            \/ \E c \in DOMAIN loadFixtures[InsertTable(loadSorted, loadK)][loadJ] :
                  EvalMatches(loadFixtures[InsertTable(loadSorted, loadK)][loadJ][c])
      [] loadPc = "reset" ->
            /\ loadSorted # <<>>
            /\ \/ ~cfg.DryRun
               \/ cfg.Database = "mysql"
               \/ \E t \in Range(loadSorted) : Len(t) # 2
      [] OTHER -> FALSE

\* the step of the phase Load stands in can return an error or panic, as
\* the handlers compute it
CanFailNow ==
    CASE loadPc = "parse" ->
            \E iter \in Perms(IdValues) :
               LET out == ParseFile(docs, FilePath, iter)
               IN out.panic # NoPanic \/ out.err # NoErr
      [] loadPc = "graph" ->
            \E fail \in CallsOf(GetDependencyGraph(cfg.Database, catalog, 0)) :
               GetDependencyGraph(cfg.Database, catalog, fail).err # NoErr
      [] loadPc = "sort" -> TopoSort(loadDeps, loadTables).err # NoErr
      [] loadPc \in {"begin", "commit"} -> TRUE
      [] loadPc = "truncate" ->
            \E fail \in CallsOf(TruncateTables(cfg.Database, loadSorted, cfg.DryRun, 0)) :
               TruncateTables(cfg.Database, loadSorted, cfg.DryRun, fail).err # NoErr
      [] loadPc = "insert" ->
            LET table == InsertTable(loadSorted, loadK)
                row == loadFixtures[table][loadJ]
            IN \E cols, order \in Perms(DOMAIN row) :
               \E fail \in CallsOf(insertRow(cfg, table, row, cols, order, 0)) :
                  insertRow(cfg, table, row, cols, order, fail).err # NoErr
      [] loadPc = "reset" ->
            \E fail \in CallsOf(ResetSequences(cfg.Database, loadSorted, cfg.DryRun, 0)) :
               ResetSequences(cfg.Database, loadSorted, cfg.DryRun, fail).err # NoErr
      [] OTHER -> FALSE

\* C19: a Load run goes through resolve, graph, sort, begin, truncate (only
\* if enabled), the inserts, reset (only if enabled), commit in this order
\* and never back: each step leads to a later phase or to the return, the
\* calls are in phase order (no truncate after an insert, no insert after a
\* reset), a returned run is exactly one of Committed and Failed, and the
\* step of every non-terminal phase can fail whenever it makes a call or
\* meets a failing document or a cycle (graph, begin and commit always can).
C19_PhasesInFixedOrder ==
    /\ [](StepCanFail <=> CanFailNow)
    /\ [][/\ loadPc' \in NextPhases(loadPc)
          /\ \A i, j \in DOMAIN trace' : i < j => CallPhase(trace'[i]) <= CallPhase(trace'[j])
          /\ loadPc' = "truncate" => cfg.Truncate
          /\ loadPc' = "reset" => cfg.ResetSeq
          /\ Terminal' => (Committed' /\ ~Failed') \/ (Failed' /\ ~Committed')]_vars

\* a committed run with truncation and reset enabled that inserted rows of
\* a child and of its parent
C19_Witness ==
    /\ Committed
    /\ cfg.Truncate /\ cfg.ResetSeq /\ ~cfg.DryRun
    /\ \A p \in 1..6 : \E i \in DOMAIN trace : CallPhase(trace[i]) = p
    /\ FixtureEdges # {}
    /\ Cardinality(AllInserts) >= 3


\* the statements of the truncation and of the sequence reset
TruncateKinds == {"truncate", "truncate_table", "set_foreign_key_checks"}

ResetKinds == {"reset_sequences", "auto_increment_columns", "select_max", "alter_auto_increment"}

IsTableTruncate(e) == e.stmt.kind = "truncate_table"

IsTableReset(e) == e.stmt.kind \in {"reset_sequences", "auto_increment_columns"}

\* the tables the truncation was given, in the order of its statements
TruncatedList ==
    IF cfg.Database = "postgres"
    THEN trace[CHOOSE i \in DOMAIN trace : trace[i].stmt.kind = "truncate"].stmt.tables
    ELSE LET calls == SelectSeq(trace, IsTableTruncate)
         IN [i \in DOMAIN calls |-> calls[i].stmt.table]

\* the tables the sequence reset went through, in the order of its statements
ResetList ==
    LET calls == SelectSeq(trace, IsTableReset)
    IN [i \in DOMAIN calls |->
           IF cfg.Database = "postgres" THEN calls[i].stmt.table
           ELSE TableName(calls[i].stmt.table)]

\* the table of each insert the dataset asks for, walking the sorter's
\* output from its last table to its first
RECURSIVE DatasetInserts(_, _, _)
DatasetInserts(fx, list, k) ==
    IF k = 0 THEN <<>>
    ELSE [i \in DOMAIN RowsAt(fx, list[k]) |-> list[k]] \o DatasetInserts(fx, list, k - 1)

InsertedTables ==
    LET calls == SelectSeq(trace, IsInsert)
    IN [i \in DOMAIN calls |-> calls[i].stmt.table]

\* C20: with Truncate disabled no truncate statement is issued, with ResetSeq
\* disabled no reset statement is issued; a successful Load inserts the rows
\* of the dataset table by table whatever the two flags are; with both
\* enabled the truncation and the sequence reset of a successful Load go
\* through the same tables in the same order, the sorter's output.
C20_TruncateResetOptionalSameOrder ==
    /\ ~cfg.Truncate => \A i \in DOMAIN trace : trace[i].stmt.kind \notin TruncateKinds
    /\ ~cfg.ResetSeq => \A i \in DOMAIN trace : trace[i].stmt.kind \notin ResetKinds
    /\ LoadSucceeded =>
          InsertedTables =
             [i \in DOMAIN DatasetInserts(loadFixtures, loadSorted, Len(loadSorted)) |->
                 DialectTable(DatasetInserts(loadFixtures, loadSorted, Len(loadSorted))[i])]
    /\ (LoadSucceeded /\ cfg.Truncate /\ cfg.ResetSeq) =>
          /\ TruncatedList = [i \in DOMAIN loadSorted |-> DialectTable(loadSorted[i])]
          /\ ResetList = TruncatedList

\* a successful Load with both flags that truncated and reset two tables and
\* inserted rows
C20_Witness ==
    /\ LoadSucceeded
    /\ cfg.Truncate /\ cfg.ResetSeq
    /\ Len(loadSorted) >= 2
    /\ Len(ResetList) >= 2
    /\ ResetList = TruncatedList
    /\ Len(InsertedTables) >= 2


(***************************************************************************)
(* Claims about template chains and the registry                           *)
(***************************************************************************)
\* the fields of base with those of own laid over them: a key of own wins
FieldsOver(base, own) ==
    [k \in DOMAIN base \cup DOMAIN own |-> IF k \in DOMAIN own THEN own[k] ELSE base[k]]

\* the registry the document's templates make
DocTemplates == registerTemplates(docs[FilePath].templates, 1, EmptyTemplates)

\* name, its parent and its grandparent are three templates, the last one
\* extending nothing
ThreeLevels(reg, name) ==
    /\ name \in DOMAIN reg
    /\ reg[name].extends \in DOMAIN reg
    /\ reg[reg[name].extends].extends \in DOMAIN reg
    /\ reg[reg[reg[name].extends].extends].extends = <<>>
    /\ Cardinality({name, reg[name].extends, reg[reg[name].extends].extends}) = 3

\* C21: resolving a template gives the resolved fields of its parent with
\* its own fields laid over them; for grandparent <- parent <- child this is
\* the grandparent's fields overlaid by the parent's, then by the child's,
\* which equals the grandparent's fields overlaid by (parent overlaid by
\* child); the row that extends the template is these fields overlaid by its
\* own; and no resolution changes the registry.
C21_ChainResolutionAssociative ==
    parsePc = "parsed" =>
        LET reg == TemplatesAt(DocTemplates, TemplateTable)
            Resolved(n) == resolveTemplateFields(TemplateTable, n, DocTemplates, {})
            row == docs[FilePath].tables[TemplateTable][1]
        IN /\ \A c \in DOMAIN reg :
                 /\ Resolved(c).templates = DocTemplates
                 /\ (Resolved(c).panic = NoPanic /\ reg[c].extends # <<>>) =>
                       /\ Resolved(reg[c].extends).panic = NoPanic
                       /\ Resolved(c).fields
                            = FieldsOver(Resolved(reg[c].extends).fields, reg[c].fields)
                 /\ ThreeLevels(reg, c) =>
                       LET p == reg[c].extends
                           g == reg[p].extends
                       IN /\ Resolved(c).panic = NoPanic
                          /\ Resolved(c).fields
                               = FieldsOver(FieldsOver(reg[g].fields, reg[p].fields),
                                            reg[c].fields)
                          /\ Resolved(c).fields
                               = FieldsOver(reg[g].fields,
                                            FieldsOver(reg[p].fields, reg[c].fields))
           /\ (Succeeded(parseOut) /\ row["extends"].text \in DOMAIN reg) =>
                 parseOut.fixtures[TemplateTable]
                    = <<FieldsOver(Resolved(row["extends"].text).fields, OwnFields(row))>>

\* a row extending super, which extends admin, which extends base: the three
\* templates define overlapping keys
C21_Witness ==
    /\ parsePc = "parsed" /\ Succeeded(parseOut)
    /\ ThreeLevels(TemplatesAt(DocTemplates, TemplateTable),
                   docs[FilePath].tables[TemplateTable][1]["extends"].text)
    /\ \A i \in 1..3 : DOMAIN docs[FilePath].templates[i].fields = FieldKeys
    /\ Len(parseOut.fixtures[TemplateTable]) = 1
    /\ parseOut.fixtures[TemplateTable][1]["role"]
          = StrVal(docs[FilePath].tables[TemplateTable][1]["extends"].text[1])


(***************************************************************************)
(* Claims about the two TopoSort variants                                  *)
(***************************************************************************)
\* the depth-first post-order: a table follows its parents, taken in
\* adjacency-list order; done holds the tables finished so far
RECURSIVE PostVisit(_, _, _), PostParents(_, _, _, _)
PostVisit(g, node, done) ==
    IF node \in Range(done) THEN done
    ELSE Append(PostParents(g, GraphAt(g, node), 1, done), node)

PostParents(g, deps, i, done) ==
    IF i > Len(deps) THEN done
    ELSE PostParents(g, deps, i + 1, PostVisit(g, deps[i], done))

\* the post-order of the requested tables taken in the given order
RECURSIVE PostOrder(_, _, _, _)
PostOrder(g, tables, i, done) ==
    IF i > Len(tables) THEN done
    ELSE PostOrder(g, tables, i + 1, PostVisit(g, tables[i], done))

\* C22: TopoSort returns the reverse of the depth-first post-order of the
\* requested tables (given order, parents in adjacency-list order), and the
\* variant that prepends on finish returns the same list, or both return
\* the same error.
C22_ReversePostOrderBothVariants ==
    sortPc = "sorted" =>
        /\ TopoSortPrepend(graph, inputTables).err = sortErr
        /\ TopoSortPrepend(graph, inputTables).order = sortOrder
        /\ ~CycleReachable(graph, Range(inputTables)) =>
              /\ sortErr = NoErr
              /\ \A i \in DOMAIN sortOrder :
                    sortOrder[i] = PostOrder(graph, inputTables, 1, <<>>)[Len(sortOrder) + 1 - i]
              /\ Len(sortOrder) = Len(PostOrder(graph, inputTables, 1, <<>>))

\* two requested tables with separate parents: the closure of the later
\* request stands before that of the earlier one
C22_Witness ==
    /\ sortPc = "sorted" /\ sortErr = NoErr
    /\ inputTables = <<Users, Orders>>
    /\ Items \in Parents(graph, Orders)
    /\ sortOrder = <<Orders, Items, Users>>


(***************************************************************************)
(* Claims about the MySQL truncation                                       *)
(***************************************************************************)
IsTruncateCall(e) == e.stmt.kind \in TruncateKinds

\* the statements of the truncation, in the order of the trace
TruncateStatements ==
    LET calls == SelectSeq(trace, IsTruncateCall)
    IN [i \in DOMAIN calls |-> calls[i].stmt]

\* disable the checks, one TRUNCATE per table of the list under its name
\* without schema, enable the checks
MySQLTruncateScript(list) ==
    <<[kind |-> "set_foreign_key_checks", value |-> 0]>>
       \o [i \in DOMAIN list |-> [kind |-> "truncate_table", table |-> <<list[i][Len(list[i])]>>]]
       \o <<[kind |-> "set_foreign_key_checks", value |-> 1]>>

IsPrefix(s, t) == Len(s) <= Len(t) /\ \A i \in DOMAIN s : s[i] = t[i]

\* C23: the statements of a MySQL truncation are, in this order, the one
\* that disables the foreign-key checks, one TRUNCATE per table of the list
\* in list order under the table name without its schema, the one that
\* enables the checks; a truncation that fails stops somewhere in this
\* sequence, and every TRUNCATE has the disabling statement before it and no
\* enabling statement before it.
C23_MySQLTruncateOrder ==
    (cfg.Database = "mysql" /\ cfg.Truncate) =>
        /\ IsPrefix(TruncateStatements, MySQLTruncateScript(loadSorted))
        /\ LoadSucceeded => TruncateStatements = MySQLTruncateScript(loadSorted)
        /\ \A j \in DOMAIN trace :
              trace[j].stmt.kind = "truncate_table" =>
                 /\ \E i \in 1..(j - 1) :
                       /\ trace[i].stmt = [kind |-> "set_foreign_key_checks", value |-> 0]
                       /\ trace[i].op = "Tx.Exec" /\ trace[i].ok
                 /\ \A i \in 1..(j - 1) :
                       trace[i].stmt # [kind |-> "set_foreign_key_checks", value |-> 1]

\* an executed MySQL truncation of two schema-qualified tables
C23_Witness ==
    /\ LoadSucceeded
    /\ cfg.Database = "mysql" /\ cfg.Truncate /\ ~cfg.DryRun
    /\ Len(loadSorted) >= 2
    /\ \A i \in DOMAIN loadSorted : Len(loadSorted[i]) = 2
    /\ Len(TruncateStatements) = Len(loadSorted) + 2
    /\ \A i \in DOMAIN trace : IsTruncateCall(trace[i]) => trace[i].op = "Tx.Exec"


\* C24: once a MySQL truncation has disabled the foreign-key checks and
\* returned, with or without an error, it has issued the statement that
\* enables them again.
C24_ChecksReenabledOnEveryReturn ==
    \A i \in DOMAIN trace :
        (/\ trace[i].stmt = [kind |-> "set_foreign_key_checks", value |-> 0]
         /\ trace[i].ok) =>
            \E j \in DOMAIN trace :
                /\ j > i
                /\ trace[j].stmt = [kind |-> "set_foreign_key_checks", value |-> 1]


(***************************************************************************)
(* Claims about includes reached twice and template visibility             *)
(***************************************************************************)
\* C25: the include-cycle error is reported only when a document is reached
\* again on its own include chain: a resolution whose include graph has no
\* cycle reachable from the resolved document succeeds, also when a document
\* is reachable through two include paths.
C25_NoFalseIncludeCollision ==
    (parsePc = "parsed" /\ ~CycleReachable(IncludeGraph(docs), {FilePath})) =>
        Succeeded(parseOut)


(***************************************************************************)
(* Claims about the tables a Load touches                                  *)
(***************************************************************************)
\* the tables of S and the tables they reference in the schema, directly or
\* through other tables
RECURSIVE FKClosure(_)
FKClosure(S) ==
    LET next == S \cup {e.parent : e \in {x \in Range(catalog) : x.child \in S}}
    IN IF next = S THEN S ELSE FKClosure(next)

\* the names under which the dialect addresses the tables of S
DialectNames(S) == {DialectTable(t) : t \in S}

TruncatedTables ==
    UNION {IF trace[i].stmt.kind = "truncate"
           THEN DialectNames(Range(trace[i].stmt.tables))
           ELSE IF trace[i].stmt.kind = "truncate_table" THEN {trace[i].stmt.table}
           ELSE {} : i \in DOMAIN trace}

ResetTables ==
    {trace[i].stmt.table : i \in {j \in DOMAIN trace : trace[j].stmt.kind \in ResetKinds}}

InsertTables == {trace[i].stmt.table : i \in AllInserts}

\* C26: the truncated tables, and the reset ones, are the tables the fixture
\* declares together with every table they reference through foreign keys,
\* parents without rows included; a Load that fails on the way has touched
\* only tables among them; inserts go only to declared tables.
C26_TouchedTablesAreTheClosure ==
    /\ TruncatedTables \cup ResetTables \subseteq DialectNames(FKClosure(DOMAIN loadFixtures))
    /\ InsertTables \subseteq DialectNames(DOMAIN loadFixtures)
    /\ LoadSucceeded =>
          /\ cfg.Truncate => TruncatedTables = DialectNames(FKClosure(DOMAIN loadFixtures))
          /\ cfg.ResetSeq => ResetTables = DialectNames(FKClosure(DOMAIN loadFixtures))
          /\ InsertTables = DialectNames({t \in DOMAIN loadFixtures : loadFixtures[t] # <<>>})

\* a successful Load that truncated and reset a parent the fixture has no
\* rows for
C26_Witness ==
    /\ LoadSucceeded
    /\ cfg.Truncate /\ cfg.ResetSeq /\ ~cfg.DryRun
    /\ InsertTables # {}
    /\ \E t \in FKClosure(DOMAIN loadFixtures) \ DOMAIN loadFixtures :
          DialectTable(t) \in TruncatedTables \cap ResetTables


\* the templates of the table visible in a document: those of its includes,
\* nested ones alike, a later include overwriting an earlier one, then the
\* document's own, a later one overwriting
RECURSIVE Visible(_, _, _)
Visible(fs, path, table) ==
    LET RECURSIVE FromIncludes(_)
        FromIncludes(i) ==
            IF i = 0 THEN [n \in {} |-> <<>>]
            ELSE FieldsOver(FromIncludes(i - 1), Visible(fs, fs[path].include[i], table))
    IN FieldsOver(FromIncludes(Len(fs[path].include)), Registry(fs, path, table))

\* the documents the resolution of path goes through
Reached(fs, path) == Closure(IncludeGraph(fs), {path})

\* the rows of the dataset that the document declared (a row names it)
RowsFrom(rows, path) == SelectSeq(rows, LAMBDA r : r["name"] = StrVal(path))

\* C27: a dataset that resolves holds, for the row a reached document
\* declares, the row resolved against the templates visible in that
\* document (its includes' templates in include order, then its own, later
\* registrations overwriting) whenever the template it extends is visible
\* there; templates of the including document or of a sibling give it no
\* field, and a redefinition by the includer leaves it as it was resolved.
C27_TemplatesVisibleFromIncludesAndSelf ==
    (parsePc = "parsed" /\ Succeeded(parseOut)) =>
        \A p \in Reached(docs, FilePath) :
            TemplateTable \in DOMAIN docs[p].tables =>
                LET row == docs[p].tables[TemplateTable][1]
                    reg == Visible(docs, p, TemplateTable)
                    got == RowsFrom(RowsAt(parseOut.fixtures, TemplateTable), p)
                IN IF row["extends"].text \in DOMAIN reg
                   THEN got = <<ExpectedRow(reg, row)>>
                   ELSE /\ Len(got) = 1
                        /\ DOMAIN got[1] \cap FieldKeys = {}

\* base.yml and addon.yml both define base, main includes them in this
\* order and redefines admin only: the row of base.yml has the role of
\* base.yml's template, the row of main the role of addon's over main's admin
C27_Witness ==
    /\ parsePc = "parsed" /\ Succeeded(parseOut)
    /\ docs[FilePath].include = <<"base.yml", "addon.yml">>
    /\ docs[FilePath].templates = <<ScopeAdmin(FilePath)>>
    /\ docs["base.yml"].templates = <<ScopeBase("base.yml")>>
    /\ docs["addon.yml"].templates = <<ScopeBase("addon.yml")>>
    /\ RowsFrom(RowsAt(parseOut.fixtures, TemplateTable), "base.yml")
          = <<[name |-> StrVal("base.yml"), role |-> StrVal("base.yml")]>>
    /\ RowsFrom(RowsAt(parseOut.fixtures, TemplateTable), FilePath)
          = <<[name |-> StrVal(FilePath), role |-> StrVal("addon.yml"),
               active |-> StrVal(FilePath)]>>


\* C28: a row that extends a template not registered for its table makes
\* the resolution abort, whether the table has other templates or none.
C28_UnknownTemplateAborts ==
    parsePc = "parsed" =>
        \A i \in DOMAIN docs[FilePath].tables[TemplateTable] :
            LET row == docs[FilePath].tables[TemplateTable][i]
            IN ("extends" \in DOMAIN row
                  /\ row["extends"].text \notin DOMAIN Registry(docs, FilePath, TemplateTable)) =>
                  ~Succeeded(parseOut)


(***************************************************************************)
(* Claims about the ids of the merged dataset                              *)
(***************************************************************************)
\* the rows of the table the resolution of main.yml meets, in declaration
\* order: those of its includes, then its own
DeclaredRows(table) ==
    LET RECURSIVE FromIncludes(_)
        FromIncludes(i) ==
            IF i = 0 THEN <<>>
            ELSE FromIncludes(i - 1) \o RowsAt(docs[docs[FilePath].include[i]].tables, table)
    IN FromIncludes(Len(docs[FilePath].include)) \o RowsAt(docs[FilePath].tables, table)

\* C29: in every table of the dataset ParseFile returns no two rows have
\* the same id: an id declared several times, in one document or in two,
\* stands once, with its last declared row; every row that carries an id
\* stands before every row without one.
C29_DatasetIdsUnique ==
    (parsePc = "parsed" /\ Succeeded(parseOut)) =>
        \A table \in DOMAIN parseOut.fixtures :
            LET rows == parseOut.fixtures[table]
            IN /\ \A i, j \in DOMAIN rows :
                     (HasID(rows[i]) /\ HasID(rows[j]) /\ rows[i]["id"] = rows[j]["id"]) => i = j
               /\ IdsOf(rows) = IdsOf(DeclaredRows(table))
               /\ \A k \in IdsOf(rows) :
                     LastWithID(rows, k) = LastWithID(DeclaredRows(table), k)
               /\ \A i, j \in DOMAIN rows : (HasID(rows[i]) /\ ~HasID(rows[j])) => i < j
               /\ NoIDRowsOf(rows) = NoIDRowsOf(DeclaredRows(table))

\* base.yml declares a row without id and id 1, main.yml includes it and
\* declares id 1 twice
C29_Witness ==
    /\ parsePc = "parsed" /\ Succeeded(parseOut)
    /\ docs[FilePath].include = <<"base.yml">>
    /\ docs["base.yml"].tables
          = [t \in {Users} |-> <<[name |-> StrVal("a")], [id |-> IntVal("1"), name |-> StrVal("a")]>>]
    /\ docs[FilePath].tables
          = [t \in {Users} |-> <<[id |-> IntVal("1"), name |-> StrVal("a")],
                                 [id |-> IntVal("1"), name |-> StrVal("b")]>>]
    /\ parseOut.fixtures[Users]
          = <<[id |-> IntVal("1"), name |-> StrVal("b")], [name |-> StrVal("a")]>>


(***************************************************************************)
(* Claims about the INSERT statement                                       *)
(***************************************************************************)
\* C30: every insert names the row's table (MySQL: without its schema),
\* lists each column of the row once, has as many placeholders as columns
\* ($1..$n on PostgreSQL, ? on MySQL) and binds to the i-th placeholder the
\* value of the i-th listed column; the statement for a given set of
\* columns is the same on every call, for {id, name} the columns id, name.
C30_OneInsertPerRowFixedText ==
    \A i \in AllInserts :
        LET s == trace[i].stmt
        IN /\ NoDup(s.cols)
           /\ Range(s.cols) = DOMAIN s.row
           /\ Len(s.ph) = Len(s.cols)
           /\ Len(s.args) = Len(s.cols)
           /\ \A c \in DOMAIN s.cols :
                 /\ s.args[c] = s.row[s.cols[c]]
                 /\ s.ph[c] = IF cfg.Database = "postgres" THEN <<"$", c>> ELSE <<"?">>
           /\ \E t \in DOMAIN loadFixtures : s.table = DialectTable(t)
           /\ DOMAIN s.row = {"id", "name"} => s.cols = <<"id", "name">>
           /\ \A j \in AllInserts :
                 (trace[j].stmt.table = s.table /\ DOMAIN trace[j].stmt.row = DOMAIN s.row) =>
                    trace[j].stmt.cols = s.cols

====
